---- MODULE Spec2Model ----
(***************************************************************************)
(* MemoryMind AI: the match controller (MemoryGame, js/game.js), the       *)
(* opponent (MemoryAI, js/ai.js) and the part of the user interface that   *)
(* gates card clicks (GameUI, js/utils.js).                                *)
(*                                                                         *)
(* Every async function of the source is a chain of steps: a step runs     *)
(* from the expiry of a timer (GameUtils.delay, GameUtils.animateElement)  *)
(* to the next await of a timer and is atomic, because the page has one    *)
(* thread.  User events (a card click, restart, a difficulty change) are   *)
(* steps of their own and may arrive between any two steps of a chain.     *)
(* A suspended chain carries the milliseconds left on its timer; tasks is   *)
(* the queue of pending timers in the order in which they expire.          *)
(*                                                                         *)
(* Scaling.  The boards of the source have 16 to 48 cards and an alphabet  *)
(* of 4 symbols.  DIFFICULTIES and SYMBOLS below keep the shape of the     *)
(* tables (rows x cols boards of growing size, pair i carries symbol       *)
(* i mod |SYMBOLS|) with fewer rows, 2 columns and 2 symbols.  Numbers     *)
(* that stand for fractions are in thousandths (0.7 is 700).               *)
(*                                                                         *)
(* Left out: what the program writes and never reads back (gameHistory,    *)
(* revealedCards, moveCount and the timestamps of MemoryAI), the timer,    *)
(* the status texts and localStorage.                                      *)
(***************************************************************************)
EXTENDS Integers, Sequences, FiniteSets, TLC

(***************************************************************************)
(* Bounds of the exploration.                                              *)
(***************************************************************************)
\* rows of the smallest board; a level of rank k has k * RowScale rows
RowScale == 1
\* restarts and difficulty changes explored in one behaviour
MaxRestarts == 1
\* resolution cycles (evaluateMove) explored in the first match
MaxMoves == 3
\* resolution cycles explored in a match that follows a restart
MaxMovesAfterRestart == 1
\* a restart or difficulty change is explored while fewer cycles than this have run
RestartBefore == 2
\* resolution cycles explored in a match that begins with a chain in flight
MaxCarryMoves == 2
\* async chains in flight at the same time
MaxTasks == 2
\* instants per flip animation at which a user event is explored
EventsPerFlip == 2
\* human reveals logged before a decision, in the specification of decide()
MaxLog == 3

(***************************************************************************)
(* GameUtils.GAME_CONSTANTS                                                *)
(***************************************************************************)
SYMBOLS == 0 .. 1

LEVELS == {"beginner", "intermediate", "advanced", "expert"}

DIFFICULTIES ==
  [beginner     |-> [rows |-> 1 * RowScale, cols |-> 2, aiAccuracy |-> 700],
   intermediate |-> [rows |-> 2 * RowScale, cols |-> 2, aiAccuracy |-> 850],
   advanced     |-> [rows |-> 3 * RowScale, cols |-> 2, aiAccuracy |-> 950],
   expert       |-> [rows |-> 4 * RowScale, cols |-> 2, aiAccuracy |-> 980]]

\* the levels the controller specification explores
PlayLevels == {"beginner", "intermediate"}

\* the value JavaScript yields for a missing array element or a missing card
Undefined == -1

TotalCards(cfg) == cfg.rows * cfg.cols

Indices(cfg) == 0 .. (TotalCards(cfg) - 1)

(***************************************************************************)
(* Small helpers on sequences and numbers.                                 *)
(***************************************************************************)
Range(seq) == {seq[k] : k \in 1 .. Len(seq)}

Includes(seq, x) == \E k \in 1 .. Len(seq) : seq[k] = x

RECURSIVE SortedSeq(_)
\* the elements of a finite set of integers in ascending order
SortedSeq(S) ==
  IF S = {} THEN <<>>
  ELSE LET m == CHOOSE x \in S : \A y \in S : x <= y
       IN  <<m>> \o SortedSeq(S \ {m})

RECURSIVE GCD(_, _)
GCD(a, b) == IF b = 0 THEN a ELSE GCD(b, a % b)

\* the fraction n/d (d > 0) in lowest terms, and 0 for a negative n: Math.max(0, n/d)
Frac(n, d) == IF n <= 0 THEN <<0, 1>> ELSE <<n \div GCD(n, d), d \div GCD(n, d)>>

\* p > q for fractions with positive denominators
FracGt(p, q) == p[1] * q[2] > q[1] * p[2]

(***************************************************************************)
(* MemoryGame.generateCards and GameUtils.shuffleArray                     *)
(***************************************************************************)
\* the unshuffled array: cards 2i and 2i+1 are pair i, with symbol i mod |SYMBOLS|
CardPairs(cfg) ==
  [k \in Indices(cfg) |->
     [symbol |-> (k \div 2) % Cardinality(SYMBOLS), pairId |-> k \div 2]]

\* a swap that loses the element at i: only shuffled[i] = shuffled[j]
SwapOverwrite(arr, i, j) == [arr EXCEPT ![i] = arr[j]]

Swap(arr, i, j) == [arr EXCEPT ![i] = arr[j], ![j] = arr[i]]

RECURSIVE ShuffleFrom(_, _)
\* Fisher-Yates from position i down to 1, over every draw of j in 0..i
ShuffleFrom(arr, i) ==
  IF i <= 0 THEN {arr}
  ELSE UNION {ShuffleFrom(Swap(arr, i, j), i - 1) : j \in 0 .. i}

ShuffleArray(arr) == ShuffleFrom(arr, Cardinality(DOMAIN arr) - 1)

GenerateCards(cfg) == ShuffleArray(CardPairs(cfg))

(***************************************************************************)
(* MemoryAI: the belief and the pure parts of the decision.                *)
(* memory is a JavaScript Map: a sequence of entries in insertion order.   *)
(***************************************************************************)
MemHas(mem, i) == \E k \in 1 .. Len(mem) : mem[k].index = i

MemGet(mem, i) == mem[CHOOSE k \in 1 .. Len(mem) : mem[k].index = i].symbol

\* Map.set: a new key goes last, an existing key keeps its place
MemSet(mem, i, s) ==
  IF MemHas(mem, i)
  THEN [k \in 1 .. Len(mem) |->
          IF mem[k].index = i THEN [index |-> i, symbol |-> s] ELSE mem[k]]
  ELSE Append(mem, [index |-> i, symbol |-> s])

SymbolCount(mem, s) == Cardinality({k \in 1 .. Len(mem) : mem[k].symbol = s})

\* updateProbabilities: every position not in memory gets, per symbol,
\* max(0, (totalCards / |SYMBOLS| - seen) / (totalCards - memory.size))
UpdateProbabilities(mem, pm, cfg) ==
  LET total   == TotalCards(cfg)
      nsym    == Cardinality(SYMBOLS)
      unknown == {i \in Indices(cfg) : ~MemHas(mem, i)}
      probs   == [s \in SYMBOLS |->
                    Frac(total - nsym * SymbolCount(mem, s),
                         nsym * (total - Len(mem)))]
  IN  [i \in (DOMAIN pm) \cup unknown |->
         IF i \in unknown THEN probs ELSE pm[i]]

\* trackPlayerPattern: append, and drop the oldest entry beyond 20
MaxPatterns == 20

\* trackPlayerPattern that drops the new entry, not the oldest, beyond 20
TrackPlayerPatternKeepOldest(patterns, cardIndex) ==
  IF Len(patterns) >= MaxPatterns THEN patterns ELSE Append(patterns, cardIndex)

TrackPlayerPattern(patterns, cardIndex) ==
  LET pushed == Append(patterns, cardIndex)
  IN  IF Len(pushed) > MaxPatterns THEN Tail(pushed) ELSE pushed

\* the 2x2 grid cell of a card
AreaOf(index, cfg) == <<(index \div cfg.cols) \div 2, (index % cfg.cols) \div 2>>

\* analyzePlayerPatterns: the (at most) two most frequent areas, ties in
\* order of first occurrence (stable sort of a Map in insertion order), and
\* the count of the leading area; confidence is topCount / Len(patterns)
AnalyzePlayerPatterns(patterns, cfg) ==
  IF Len(patterns) < 3
  THEN [predictedAreas |-> {}, topCount |-> 0, total |-> 1]
  ELSE
    LET areas    == {AreaOf(patterns[k], cfg) : k \in 1 .. Len(patterns)}
        count(a) == Cardinality({k \in 1 .. Len(patterns) : AreaOf(patterns[k], cfg) = a})
        first(a) == CHOOSE k \in 1 .. Len(patterns) :
                      /\ AreaOf(patterns[k], cfg) = a
                      /\ \A j \in 1 .. (k - 1) : AreaOf(patterns[j], cfg) # a
        before(a, b) == \/ count(a) > count(b)
                        \/ count(a) = count(b) /\ first(a) < first(b)
        top2     == {a \in areas : Cardinality({b \in areas : before(b, a)}) < 2}
        best     == CHOOSE a \in areas : \A b \in areas : ~before(b, a)
    IN  [predictedAreas |-> top2, topCount |-> count(best), total |-> Len(patterns)]

\* a decision: the two indices and the strategy that produced them
Decision(c1, c2, strategy) == [cards |-> <<c1, c2>>, strategy |-> strategy]

NoMove == [cards |-> <<>>, strategy |-> "none"]

\* findKnownPairs that searches every remembered card instead of the available ones
FindKnownPairsAnyCard(availableCards, mem) ==
  LET hits == {p \in (1 .. Len(mem)) \X (1 .. Len(mem)) :
                 p[1] < p[2] /\ mem[p[1]].symbol = mem[p[2]].symbol}
  IN  IF hits = {} THEN [cards |-> <<>>, strategy |-> "none"]
      ELSE LET h == CHOOSE p \in hits : \A q \in hits :
                      p[1] < q[1] \/ (p[1] = q[1] /\ p[2] <= q[2])
           IN  [cards |-> <<mem[h[1]].index, mem[h[2]].index>>, strategy |-> "known"]

\* findKnownPairs that returns the last matching pair of its scan instead of the first
FindKnownPairsLast(availableCards, mem) ==
  LET am    == SelectSeq(availableCards, LAMBDA x : MemHas(mem, x))
      hits  == {p \in (1 .. Len(am)) \X (1 .. Len(am)) :
                  p[1] < p[2] /\ MemGet(mem, am[p[1]]) = MemGet(mem, am[p[2]])}
  IN  IF hits = {} THEN NoMove
      ELSE LET h == CHOOSE p \in hits : \A q \in hits :
                      p[1] > q[1] \/ (p[1] = q[1] /\ p[2] >= q[2])
           IN  Decision(am[h[1]], am[h[2]], "known")

\* findKnownPairs: the first pair (i < j in the order of availableCards, restricted
\* to remembered cards) whose remembered symbols are equal
FindKnownPairs(availableCards, mem) ==
  LET am    == SelectSeq(availableCards, LAMBDA x : MemHas(mem, x))
      hits  == {p \in (1 .. Len(am)) \X (1 .. Len(am)) :
                  p[1] < p[2] /\ MemGet(mem, am[p[1]]) = MemGet(mem, am[p[2]])}
  IN  IF hits = {} THEN NoMove
      ELSE LET h == CHOOSE p \in hits : \A q \in hits :
                      p[1] < q[1] \/ (p[1] = q[1] /\ p[2] <= q[2])
           IN  Decision(am[h[1]], am[h[2]], "known")

\* the probability the matrix holds for (index, symbol); a missing entry counts 0
ProbabilityOf(pm, index, symbol) ==
  IF index \in DOMAIN pm THEN pm[index][symbol] ELSE <<0, 1>>

\* probabilityBasedMove without the filter "probability > 0.3"
ProbabilityBasedMoveNoThreshold(availableCards, mem, pm) ==
  LET cands(k) == SelectSeq(availableCards, LAMBDA x : ~MemHas(mem, x))
      usable == {k \in 1 .. Len(mem) :
                   Includes(availableCards, mem[k].index) /\ Len(cands(k)) > 0}
  IN  IF usable = {} THEN NoMove
      ELSE LET k  == CHOOSE x \in usable : \A y \in usable : x <= y
               cs == cands(k)
               b  == CHOOSE n \in 1 .. Len(cs) :
                       /\ \A m \in 1 .. Len(cs) :
                            ~FracGt(ProbabilityOf(pm, cs[m], mem[k].symbol),
                                    ProbabilityOf(pm, cs[n], mem[k].symbol))
                       /\ \A m \in 1 .. (n - 1) :
                            FracGt(ProbabilityOf(pm, cs[n], mem[k].symbol),
                                   ProbabilityOf(pm, cs[m], mem[k].symbol))
           IN  Decision(mem[k].index, cs[b], "probability")

\* probabilityBasedMove: the first remembered available card (in insertion order of
\* memory) that has an unknown available candidate with probability > 0.3; its
\* best candidate, the earliest of availableCards among equals (stable sort)
ProbabilityBasedMove(availableCards, mem, pm) ==
  LET cands(k) ==
        SelectSeq(availableCards,
                  LAMBDA x : /\ ~MemHas(mem, x)
                             /\ FracGt(ProbabilityOf(pm, x, mem[k].symbol), <<3, 10>>))
      usable == {k \in 1 .. Len(mem) :
                   Includes(availableCards, mem[k].index) /\ Len(cands(k)) > 0}
  IN  IF usable = {} THEN NoMove
      ELSE LET k  == CHOOSE x \in usable : \A y \in usable : x <= y
               cs == cands(k)
               b  == CHOOSE n \in 1 .. Len(cs) :
                       /\ \A m \in 1 .. Len(cs) :
                            ~FracGt(ProbabilityOf(pm, cs[m], mem[k].symbol),
                                    ProbabilityOf(pm, cs[n], mem[k].symbol))
                       /\ \A m \in 1 .. (n - 1) :
                            FracGt(ProbabilityOf(pm, cs[n], mem[k].symbol),
                                   ProbabilityOf(pm, cs[m], mem[k].symbol))
           IN  Decision(mem[k].index, cs[b], "probability")

\* GameUtils.randomChoice: any element, and undefined for an empty array
RandomChoice(seq) == IF Len(seq) = 0 THEN {Undefined} ELSE Range(seq)

\* the two draws "randomChoice(a), randomChoice(a.filter(x => x !== a[0]))"
DrawExceptHead(seq, strategy) ==
  {Decision(x, y, strategy) :
     x \in RandomChoice(seq),
     y \in RandomChoice(SelectSeq(seq, LAMBDA z : z # seq[1]))}

\* the two draws "f = randomChoice(a), randomChoice(a.filter(x => x !== f))"
DrawExceptFirst(seq, strategy) ==
  UNION {{Decision(x, y, strategy) :
            y \in RandomChoice(SelectSeq(seq, LAMBDA z : z # x))} :
         x \in RandomChoice(seq)}

\* explorationMove that takes the area-biased branch whatever the confidence
ExplorationMoveAnyConfidence(availableCards, mem, patterns, cfg) ==
  LET unknownCards == SelectSeq(availableCards, LAMBDA x : ~MemHas(mem, x))
      analysis     == AnalyzePlayerPatterns(patterns, cfg)
      blockedCards == SelectSeq(unknownCards,
                                LAMBDA x : AreaOf(x, cfg) \in analysis.predictedAreas)
  IN  IF Len(unknownCards) < 2
      THEN DrawExceptHead(availableCards, "fallback")
      ELSE (IF Len(blockedCards) >= 2
            THEN DrawExceptHead(blockedCards, "area")
            ELSE {})
           \cup DrawExceptFirst(unknownCards, "explore")

\* explorationMove: every pair the random draws can produce
ExplorationMove(availableCards, mem, patterns, cfg) ==
  LET unknownCards == SelectSeq(availableCards, LAMBDA x : ~MemHas(mem, x))
      analysis     == AnalyzePlayerPatterns(patterns, cfg)
      blockedCards == SelectSeq(unknownCards,
                                LAMBDA x : AreaOf(x, cfg) \in analysis.predictedAreas)
      confident    == FracGt(<<analysis.topCount, analysis.total>>, <<4, 10>>)
  IN  IF Len(unknownCards) < 2
      THEN DrawExceptHead(availableCards, "fallback")
      ELSE (IF confident /\ Len(blockedCards) >= 2
            THEN DrawExceptHead(blockedCards, "area")
            ELSE {})
           \cup DrawExceptFirst(unknownCards, "explore")

\* makeMove that tries the probability strategy before the known pairs
MakeMoveProbabilityFirst(availableCards, mem, pm, patterns, cfg) ==
  LET known == FindKnownPairs(availableCards, mem)
      prob  == ProbabilityBasedMove(availableCards, mem, pm)
  IN  IF prob # NoMove THEN {prob}
      ELSE IF known # NoMove THEN {known}
      ELSE ExplorationMove(availableCards, mem, patterns, cfg)

\* makeMove: the strategies in priority order
MakeMove(availableCards, mem, pm, patterns, cfg) ==
  LET known == FindKnownPairs(availableCards, mem)
      prob  == ProbabilityBasedMove(availableCards, mem, pm)
  IN  IF known # NoMove THEN {known}
      ELSE IF prob # NoMove THEN {prob}
      ELSE ExplorationMove(availableCards, mem, patterns, cfg)

(***************************************************************************)
(* The state.                                                              *)
(***************************************************************************)
VARIABLES
  \* MemoryGame.gameState
  cards, flippedCards, matchedPairs, currentPlayer, playerScore, aiScore,
  moves, isGameActive, difficulty,
  \* GameUI: the animation flag, the cards of the current board whose element
  \* has class 'flipped', and the generation of the board's elements
  isAnimating, domFlipped, boardGen,
  \* MemoryAI
  memory, probabilityMatrix, playerPatterns, memoryAccuracy, explorationRate,
  knownPairs,
  \* the results passed to GameUI.showGameOverModal in the current match
  gameResults,
  \* an async function ended with an uncaught TypeError
  crashed,
  \* the async chains that wait for a timer
  tasks

vars == <<cards, flippedCards, matchedPairs, currentPlayer, playerScore, aiScore,
          moves, isGameActive, difficulty, isAnimating, domFlipped, boardGen,
          memory, probabilityMatrix, playerPatterns, memoryAccuracy,
          explorationRate, knownPairs, gameResults, crashed, tasks>>

\* The program state as one value, so that the statements of a handler compose.
State ==
  [cards |-> cards, flippedCards |-> flippedCards, matchedPairs |-> matchedPairs,
   currentPlayer |-> currentPlayer, playerScore |-> playerScore, aiScore |-> aiScore,
   moves |-> moves, isGameActive |-> isGameActive, difficulty |-> difficulty,
   isAnimating |-> isAnimating, domFlipped |-> domFlipped, boardGen |-> boardGen,
   memory |-> memory, probabilityMatrix |-> probabilityMatrix,
   playerPatterns |-> playerPatterns, memoryAccuracy |-> memoryAccuracy,
   explorationRate |-> explorationRate, knownPairs |-> knownPairs,
   gameResults |-> gameResults, crashed |-> crashed]

Commit(st) ==
  /\ cards' = st.cards
  /\ flippedCards' = st.flippedCards
  /\ matchedPairs' = st.matchedPairs
  /\ currentPlayer' = st.currentPlayer
  /\ playerScore' = st.playerScore
  /\ aiScore' = st.aiScore
  /\ moves' = st.moves
  /\ isGameActive' = st.isGameActive
  /\ difficulty' = st.difficulty
  /\ isAnimating' = st.isAnimating
  /\ domFlipped' = st.domFlipped
  /\ boardGen' = st.boardGen
  /\ memory' = st.memory
  /\ probabilityMatrix' = st.probabilityMatrix
  /\ playerPatterns' = st.playerPatterns
  /\ memoryAccuracy' = st.memoryAccuracy
  /\ explorationRate' = st.explorationRate
  /\ knownPairs' = st.knownPairs
  /\ gameResults' = st.gameResults
  /\ crashed' = st.crashed

\* the variables hold state st
StateIs(st) ==
  /\ cards = st.cards
  /\ flippedCards = st.flippedCards
  /\ matchedPairs = st.matchedPairs
  /\ currentPlayer = st.currentPlayer
  /\ playerScore = st.playerScore
  /\ aiScore = st.aiScore
  /\ moves = st.moves
  /\ isGameActive = st.isGameActive
  /\ difficulty = st.difficulty
  /\ isAnimating = st.isAnimating
  /\ domFlipped = st.domFlipped
  /\ boardGen = st.boardGen
  /\ memory = st.memory
  /\ probabilityMatrix = st.probabilityMatrix
  /\ playerPatterns = st.playerPatterns
  /\ memoryAccuracy = st.memoryAccuracy
  /\ explorationRate = st.explorationRate
  /\ knownPairs = st.knownPairs
  /\ gameResults = st.gameResults
  /\ crashed = st.crashed

\* this.config of the game and of the opponent: both follow the difficulty
ConfigOf(st) == DIFFICULTIES[st.difficulty]

\* this.totalPairs, set by generateCards
TotalPairsOf(st) == TotalCards(ConfigOf(st)) \div 2

\* the local variables of a suspended chain, each at its initial value
\* wherever the chain no longer reads it
\*   pc           the timer the chain waits for
\*   c1, c2       cardIndex (a click), firstCard/secondCard (makeAIMove),
\*                card1Index/card2Index (evaluateMove)
\*   s1, s2       card1.symbol, card2.symbol of evaluateMove
\*   isMatch      isMatch of evaluateMove
\*   gen          the board whose element flipCardBack holds
\*   avail        availableCards of makeAIMove
\*   strategy     the strategy that produced the opponent's move
\*   due          milliseconds until the timer the chain awaits expires
\* match is the board on which the chain began (the value of boardGen at the
\* click that started it; the opponent's chains continue the human chain)
NewTask ==
  [pc |-> "none", c1 |-> Undefined, c2 |-> Undefined, s1 |-> Undefined,
   s2 |-> Undefined, isMatch |-> FALSE, gen |-> 0, avail |-> <<>>,
   strategy |-> "none", due |-> 0, match |-> 0]

\* what a step of a chain leaves: the state, and the chain's continuation if any
Suspend(st, t) == [st |-> st, cont |-> <<t>>]

Done(st) == [st |-> st, cont |-> <<>>]

\* an uncaught TypeError (a property of undefined is read): the chain ends there
Throw(st) == [st |-> [st EXCEPT !.crashed = TRUE], cont |-> <<>>]

\* GameUI.getCardElement: the current board has an element for the index
HasElement(st, index) == index \in Indices(ConfigOf(st))

(***************************************************************************)
(* MemoryAI.observeCard, recordMoveResult, learnFromMove, reset,           *)
(* setDifficulty                                                           *)
(***************************************************************************)
\* retain is the outcome of Math.random() < memoryAccuracy
ObserveCard(st, cardIndex, symbol, isPlayerMove, retain) ==
  LET mem == IF retain THEN MemSet(st.memory, cardIndex, symbol) ELSE st.memory
  IN  [st EXCEPT
         !.memory = mem,
         !.probabilityMatrix = UpdateProbabilities(mem, st.probabilityMatrix, ConfigOf(st)),
         !.playerPatterns = IF isPlayerMove THEN TrackPlayerPattern(@, cardIndex) ELSE @]

\* the outcomes Math.random() < memoryAccuracy can have
RetainOutcomes(st) ==
  {b \in BOOLEAN : (b => st.memoryAccuracy > 0) /\ (~b => st.memoryAccuracy < 1000)}

Min(a, b) == IF a <= b THEN a ELSE b

Max(a, b) == IF a >= b THEN a ELSE b

\* learnFromMove without the floor of the miss branch
LearnFromMoveNoFloor(st, wasMatch) ==
  LET acc == IF wasMatch
             THEN Min(990, st.memoryAccuracy + 10)
             ELSE st.memoryAccuracy - 5
      progress400 == (400 * Cardinality(st.knownPairs)) \div Cardinality(SYMBOLS)
  IN  [st EXCEPT !.memoryAccuracy = acc,
                 !.explorationRate = Max(100, 500 - progress400)]

\* learnFromMove that leaves the exploration rate as it is
LearnFromMoveKeepRate(st, wasMatch) ==
  LET acc == IF wasMatch
             THEN Min(990, st.memoryAccuracy + 10)
             ELSE Max((ConfigOf(st).aiAccuracy * 8) \div 10, st.memoryAccuracy - 5)
  IN  [st EXCEPT !.memoryAccuracy = acc]

LearnFromMove(st, wasMatch) ==
  LET acc == IF wasMatch
             THEN Min(990, st.memoryAccuracy + 10)
             ELSE Max((ConfigOf(st).aiAccuracy * 8) \div 10, st.memoryAccuracy - 5)
      progress400 == (400 * Cardinality(st.knownPairs)) \div Cardinality(SYMBOLS)
  IN  [st EXCEPT !.memoryAccuracy = acc,
                 !.explorationRate = Max(100, 500 - progress400)]

RecordMoveResult(st, wasMatch, symbol1) ==
  LearnFromMove(
    [st EXCEPT !.knownPairs = IF wasMatch THEN @ \cup {symbol1} ELSE @],
    wasMatch)

\* reset() that keeps the belief mapping
AIResetKeepMemory(st) ==
  [st EXCEPT !.probabilityMatrix = <<>>, !.playerPatterns = <<>>, !.knownPairs = {}]

AIReset(st) ==
  [st EXCEPT !.memory = <<>>, !.probabilityMatrix = <<>>, !.playerPatterns = <<>>,
             !.knownPairs = {}]

SetDifficulty(st, newDifficulty) ==
  AIReset([st EXCEPT !.memoryAccuracy = DIFFICULTIES[newDifficulty].aiAccuracy])

\* setDifficulty called with any value: for a value that is no key of DIFFICULTIES
\* this.config becomes undefined and reading this.config.aiAccuracy throws a
\* TypeError before memoryAccuracy is assigned and before reset() runs
SetDifficultyOf(st, newDifficulty) ==
  IF newDifficulty \in LEVELS THEN Done(SetDifficulty(st, newDifficulty))
  ELSE Throw(st)

(***************************************************************************)
(* MemoryGame: helpers                                                     *)
(***************************************************************************)
IsCardMatched(st, cardIndex) ==
  \E k \in 1 .. Len(st.matchedPairs) : Includes(st.matchedPairs[k], cardIndex)

\* isValidCardClick without the check of the turn
IsValidCardClickAnyTurn(st, cardIndex) ==
  /\ st.isGameActive
  /\ ~Includes(st.flippedCards, cardIndex)
  /\ ~IsCardMatched(st, cardIndex)
  /\ Len(st.flippedCards) < 2

\* isValidCardClick without the check that two cards are already flipped
IsValidCardClickNoLimit(st, cardIndex) ==
  /\ st.currentPlayer = "player"
  /\ st.isGameActive
  /\ ~Includes(st.flippedCards, cardIndex)
  /\ ~IsCardMatched(st, cardIndex)

IsValidCardClick(st, cardIndex) ==
  /\ st.currentPlayer = "player"
  /\ st.isGameActive
  /\ ~Includes(st.flippedCards, cardIndex)
  /\ ~IsCardMatched(st, cardIndex)
  /\ Len(st.flippedCards) < 2

GetAvailableCards(st) ==
  SortedSeq({i \in DOMAIN st.cards :
               ~Includes(st.flippedCards, i) /\ ~IsCardMatched(st, i)})

IsGameComplete(st) == Len(st.matchedPairs) = TotalPairsOf(st)

SwitchTurn(st) ==
  [st EXCEPT !.currentPlayer = IF @ = "player" THEN "ai" ELSE "player"]

\* endGame that names the player the winner of a tie
EndGamePlayerOnTie(st) ==
  [st EXCEPT
     !.isGameActive = FALSE,
     !.gameResults = Append(@, [winner |-> IF st.playerScore >= st.aiScore
                                            THEN "player" ELSE "ai",
                                 playerScore |-> st.playerScore,
                                 aiScore |-> st.aiScore, totalMoves |-> st.moves,
                                 difficulty |-> st.difficulty])]

\* endGame: the match is over and the result goes to the game-over dialog
EndGame(st) ==
  LET winner == IF st.playerScore > st.aiScore THEN "player"
                ELSE IF st.aiScore > st.playerScore THEN "ai"
                ELSE "tie"
  IN  [st EXCEPT
         !.isGameActive = FALSE,
         !.gameResults = Append(@, [winner |-> winner, playerScore |-> st.playerScore,
                                     aiScore |-> st.aiScore, totalMoves |-> st.moves,
                                     difficulty |-> st.difficulty])]

\* GameUI.flipCard up to its await: the element, if there is one, turns face up
UIFlipCard(st, index) ==
  IF HasElement(st, index)
  THEN [st EXCEPT !.isAnimating = TRUE, !.domFlipped = @ \cup {index}]
  ELSE st

(***************************************************************************)
(* MemoryGame.evaluateMove, handleMatch, handleMismatch, makeAIMove, cut   *)
(* at the timers they await.                                               *)
(***************************************************************************)
\* evaluateMove that does not look for the end of the match
AfterResolveNoEnd(st, t) ==
  LET st1 == RecordMoveResult(st, t.isMatch, t.s1)
      st2 == [st1 EXCEPT !.flippedCards = <<>>]
      st3 == IF t.isMatch THEN st2 ELSE SwitchTurn(st2)
  IN  IF st3.currentPlayer = "ai"
      THEN Suspend(st3, [NewTask EXCEPT !.pc = "aiWait", !.match = t.match])
      ELSE Done(st3)

\* evaluateMove after handleMatch / handleMismatch returned
AfterResolve(st, t) ==
  LET st1 == RecordMoveResult(st, t.isMatch, t.s1)
      st2 == [st1 EXCEPT !.flippedCards = <<>>]
  IN  IF IsGameComplete(st2) THEN Done(EndGame(st2))
      ELSE LET st3 == IF t.isMatch THEN st2 ELSE SwitchTurn(st2)
           IN  IF st3.currentPlayer = "ai"
               THEN Suspend(st3, [NewTask EXCEPT !.pc = "aiWait", !.match = t.match])
               ELSE Done(st3)

\* GameUI.markCardsAsMatched from the k-th card of the pair on
MarkCardsAsMatched(st, t, k) ==
  LET second == IF HasElement(st, t.c2)
                THEN Suspend([st EXCEPT !.domFlipped = @ \cup {t.c2}],
                             [t EXCEPT !.pc = "matched2"])
                ELSE AfterResolve([st EXCEPT !.isAnimating = FALSE], t)
  IN  IF k = 1 /\ HasElement(st, t.c1)
      THEN Suspend([st EXCEPT !.domFlipped = @ \cup {t.c1}],
                   [t EXCEPT !.pc = "matched1"])
      ELSE IF k <= 2 THEN second
      ELSE AfterResolve([st EXCEPT !.isAnimating = FALSE], t)

HandleMatch(st, t) ==
  LET st1 == [st EXCEPT
                !.matchedPairs = Append(@, <<t.c1, t.c2>>),
                !.playerScore = IF st.currentPlayer = "player" THEN @ + 1 ELSE @,
                !.aiScore = IF st.currentPlayer = "player" THEN @ ELSE @ + 1]
  IN  MarkCardsAsMatched([st1 EXCEPT !.isAnimating = TRUE], t, 1)

\* the two GameUI.flipCardBack calls of handleMismatch from the k-th on
FlipCardsBack(st, t, k) ==
  LET second == IF HasElement(st, t.c2)
                THEN Suspend(st, [t EXCEPT !.pc = "back2", !.gen = st.boardGen])
                ELSE AfterResolve(st, t)
  IN  IF k = 1 /\ HasElement(st, t.c1)
      THEN Suspend(st, [t EXCEPT !.pc = "back1", !.gen = st.boardGen])
      ELSE IF k <= 2 THEN second
      ELSE AfterResolve(st, t)

\* flipCardBack after its animation: the element it holds turns face down
Unflip(st, t, index) ==
  IF t.gen = st.boardGen THEN [st EXCEPT !.domFlipped = @ \ {index}] ELSE st

EvaluateMove(st, t) ==
  LET fc  == st.flippedCards
      c1  == IF Len(fc) >= 1 THEN fc[1] ELSE Undefined
      c2  == IF Len(fc) >= 2 THEN fc[2] ELSE Undefined
      st1 == [st EXCEPT !.moves = @ + 1]
  IN  IF c1 \notin DOMAIN st.cards \/ c2 \notin DOMAIN st.cards
      THEN Throw(st1)
      ELSE LET card1 == st.cards[c1]
               card2 == st.cards[c2]
               t1    == [NewTask EXCEPT !.c1 = c1, !.c2 = c2, !.s1 = card1.symbol,
                                        !.s2 = card2.symbol,
                                        !.isMatch = (card1.pairId = card2.pairId),
                                        !.strategy = t.strategy,
                                        !.match = t.match]
           IN  IF t1.isMatch THEN HandleMatch(st1, t1)
               ELSE Suspend(st1, [t1 EXCEPT !.pc = "mismatchDelay"])

\* makePlayerMove after the flip animation
MakePlayerMove(st, t, retain) ==
  LET st1 == [st EXCEPT !.isAnimating = FALSE, !.flippedCards = Append(@, t.c1)]
  IN  IF t.c1 \notin DOMAIN st.cards THEN Throw(st1)
      ELSE LET st2 == ObserveCard(st1, t.c1, st.cards[t.c1].symbol, TRUE, retain)
           IN  IF Len(st2.flippedCards) = 2 THEN EvaluateMove(st2, t) ELSE Done(st2)

\* makeAIMove up to the thinking delay of MemoryAI.makeMove
MakeAIMove(st, t) ==
  LET availableCards == GetAvailableCards(st)
  IN  IF st.currentPlayer # "ai" THEN Done(st)
      ELSE IF Len(availableCards) < 2 THEN Done(st)
      ELSE Suspend(st, [NewTask EXCEPT !.pc = "thinking", !.avail = availableCards,
                                       !.match = t.match])

\* the value the promise of makeAIMove resolves with: the early returns at
\* "not the opponent's turn" and "fewer than two cards" and the end of the function
\* all give undefined
MakeAIMoveValue(st) ==
  IF st.currentPlayer # "ai" THEN Undefined
  ELSE IF Len(GetAvailableCards(st)) < 2 THEN Undefined
  ELSE Undefined

\* makeAIMove from the second card's observation on
AIObserveAndEvaluate(st, t, retain1, retain2) ==
  IF t.c1 \notin DOMAIN st.cards \/ t.c2 \notin DOMAIN st.cards THEN Throw(st)
  ELSE LET st1 == ObserveCard(st, t.c1, st.cards[t.c1].symbol, FALSE, retain1)
           st2 == ObserveCard(st1, t.c2, st.cards[t.c2].symbol, FALSE, retain2)
       IN  EvaluateMove(st2, t)

\* makeAIMove: flipCard(secondCard) and what follows an element that is missing
AIFlipSecond(st, t, retain1, retain2) ==
  IF HasElement(st, t.c2)
  THEN Suspend(UIFlipCard(st, t.c2), [t EXCEPT !.pc = "aiFlip2"])
  ELSE AIObserveAndEvaluate([st EXCEPT !.flippedCards = Append(@, t.c2)], t,
                            retain1, retain2)

\* makeAIMove: flipCard(firstCard) and what follows an element that is missing
AIFlipFirst(st, t) ==
  IF HasElement(st, t.c1)
  THEN Suspend(UIFlipCard(st, t.c1), [t EXCEPT !.pc = "aiFlip1"])
  ELSE Suspend([st EXCEPT !.flippedCards = Append(@, t.c1)],
               [t EXCEPT !.pc = "aiPause"])

(***************************************************************************)
(* MemoryGame.setupNewGame and changeDifficulty                            *)
(***************************************************************************)
\* setupNewGame that leaves the scores and the matched pairs as they are
SetupNewGameKeepScores(st, board) ==
  LET st1 == AIReset([st EXCEPT
                        !.flippedCards = <<>>,
                        !.currentPlayer = "player",
                        !.moves = 0, !.isGameActive = TRUE])
  IN  [st1 EXCEPT !.cards = board,
                  !.isAnimating = FALSE, !.domFlipped = {},
                  !.boardGen = @ + 1, !.gameResults = <<>>]

\* setupNewGame with the board the shuffle produced
SetupNewGame(st, board) ==
  LET st1 == AIReset([st EXCEPT
                        !.flippedCards = <<>>, !.matchedPairs = <<>>,
                        !.currentPlayer = "player", !.playerScore = 0,
                        !.aiScore = 0, !.moves = 0, !.isGameActive = TRUE])
  IN  [st1 EXCEPT !.cards = board,
                  \* GameUI.reset and createGameBoard
                  !.isAnimating = FALSE, !.domFlipped = {},
                  !.boardGen = @ + 1, !.gameResults = <<>>]

ChangeDifficultyTo(st, newDifficulty) ==
  SetDifficulty([st EXCEPT !.difficulty = newDifficulty], newDifficulty)

(***************************************************************************)
(* The controller: initial state, user events, and the steps of the chains *)
(***************************************************************************)
\* the constructor (MemoryAI('beginner'), loadSettings with any saved level)
\* followed by init()
FreshState(level, board) ==
  SetupNewGame(
    ChangeDifficultyTo(
      [cards |-> <<>>, flippedCards |-> <<>>, matchedPairs |-> <<>>,
       currentPlayer |-> "player", playerScore |-> 0, aiScore |-> 0, moves |-> 0,
       isGameActive |-> FALSE, difficulty |-> "beginner", isAnimating |-> FALSE,
       domFlipped |-> {}, boardGen |-> -1, memory |-> <<>>,
       probabilityMatrix |-> <<>>, playerPatterns |-> <<>>,
       memoryAccuracy |-> DIFFICULTIES["beginner"].aiAccuracy,
       explorationRate |-> 300, knownPairs |-> {},
       gameResults |-> <<>>, crashed |-> FALSE],
      level),
    board)

Init ==
  \E level \in PlayLevels : \E board \in GenerateCards(DIFFICULTIES[level]) :
    /\ StateIs(FreshState(level, board))
    /\ tasks = <<>>

\* the resolution cycles still explored in the current match
MovesLeft == moves < (IF boardGen = 0 THEN MaxMoves ELSE MaxMovesAfterRestart)

\* the restarts and difficulty changes still explored
CanRestart == boardGen < MaxRestarts /\ moves < RestartBefore

\* ANIMATION_DURATIONS.cardFlip, the delay of GameUI.flipCard
cardFlip == 600
\* ANIMATION_DURATIONS.cardShake, the animation of GameUI.flipCardBack
cardShake == 500
\* the default duration of animateElement, which markCardsAsMatched gets
animateDuration == 600
\* the delay of handleMismatch
mismatchDelay == 1500
\* the pause of evaluateMove before the opponent's move
aiMoveDelay == 1000
\* the pause of makeAIMove between the two cards
betweenCardsDelay == 500
\* MemoryAI.thinkingTime
thinkingTime == 1500
\* difficultyMultiplier of calculateThinkingTime, in tenths
difficultyMultiplier ==
  [beginner |-> 8, intermediate |-> 10, advanced |-> 12, expert |-> 15]

\* MemoryAI.calculateThinkingTime:
\* floor(thinkingTime * (1 + memory.size / (rows * cols)) * difficultyMultiplier)
CalculateThinkingTime(st) ==
  (thinkingTime * (TotalCards(ConfigOf(st)) + Len(st.memory))
     * difficultyMultiplier[st.difficulty])
  \div (TotalCards(ConfigOf(st)) * 10)

\* the duration of the timer a chain awaits at pc, set in state st
Delay(pc, st) ==
  CASE pc \in {"flip", "aiFlip1", "aiFlip2"} -> cardFlip
    [] pc \in {"matched1", "matched2"} -> animateDuration
    [] pc = "mismatchDelay" -> mismatchDelay
    [] pc \in {"back1", "back2"} -> cardShake
    [] pc = "aiWait" -> aiMoveDelay
    [] pc = "aiPause" -> betweenCardsDelay
    [] pc = "thinking" -> CalculateThinkingTime(st)
    [] OTHER -> 0

\* the time until the next timer expires
MinDue == IF tasks = <<>> THEN 0 ELSE Head(tasks).due

\* the timers of queue q after d milliseconds
Later(q, d) == [k \in 1 .. Len(q) |-> [q[k] EXCEPT !.due = @ - d]]

\* setTimeout: timer t joins queue q behind the timers that expire no later
Schedule(q, t) ==
  LET before == {k \in 1 .. Len(q) : q[k].due <= t.due}
  IN  SubSeq(q, 1, Cardinality(before)) \o <<t>>
        \o SubSeq(q, Cardinality(before) + 1, Len(q))

\* the chains in flight
Chains == Range(tasks)

\* the moments at which a user event may arrive before the next timer expires
Elapsed == {d \in 0 .. MinDue : d % (cardFlip \div EventsPerFlip) = 0}

\* a step of chain t, whose timer is the first to expire, that leaves result r
Resume(t, r) ==
  /\ tasks # <<>> /\ t = Head(tasks)
  /\ Commit(r.st)
  /\ tasks' = IF r.cont = <<>> THEN Later(Tail(tasks), t.due)
              ELSE Schedule(Later(Tail(tasks), t.due),
                            [r.cont[1] EXCEPT !.due = Delay(r.cont[1].pc, r.st)])

\* the chain whose timer expires first, if it waits at pc
Waiting(pc) == {t \in Chains : t = Head(tasks) /\ t.pc = pc}

\* GameUI.handleCardClick, then MemoryGame.handleCardClick up to the flip timer
ClickAccepted(st, cardIndex) ==
  /\ ~st.isAnimating
  /\ cardIndex \notin st.domFlipped
  /\ IsValidCardClick(st, cardIndex)

HandleCardClick(cardIndex) ==
  /\ MovesLeft
  /\ Len(tasks) < MaxTasks
  /\ IF ClickAccepted(State, cardIndex)
     THEN /\ Commit(UIFlipCard(State, cardIndex))
          /\ \E d \in Elapsed :
               tasks' = Schedule(Later(tasks, d),
                                 [NewTask EXCEPT !.pc = "flip", !.c1 = cardIndex,
                                                 !.due = cardFlip,
                                                 !.match = boardGen])
     ELSE UNCHANGED vars

\* the 'restartGame' event
RestartGame ==
  /\ CanRestart
  /\ \E board \in GenerateCards(ConfigOf(State)) :
       Commit(SetupNewGame(State, board))
  /\ \E d \in Elapsed : tasks' = Later(tasks, d)

\* the 'difficultyChanged' event
ChangeDifficulty(newDifficulty) ==
  /\ CanRestart
  /\ IF newDifficulty \notin LEVELS
     THEN UNCHANGED vars
     ELSE /\ \E board \in GenerateCards(DIFFICULTIES[newDifficulty]) :
               Commit(SetupNewGame(ChangeDifficultyTo(State, newDifficulty), board))
          /\ \E d \in Elapsed : tasks' = Later(tasks, d)

\* makePlayerMove: the flip animation of the clicked card ended
FlipDoneOf(t) ==
  \E retain \in RetainOutcomes(State) : Resume(t, MakePlayerMove(State, t, retain))

FlipDone == \E t \in Waiting("flip") : FlipDoneOf(t)

\* markCardsAsMatched: the animation of the first card ended
Matched1Done ==
  \E t \in Waiting("matched1") : Resume(t, MarkCardsAsMatched(State, t, 2))

\* markCardsAsMatched: the animation of the second card ended
Matched2Done ==
  \E t \in Waiting("matched2") : Resume(t, MarkCardsAsMatched(State, t, 3))

\* handleMismatch: the 1500 ms delay ended
MismatchDelayDoneOf(t) == Resume(t, FlipCardsBack(State, t, 1))

MismatchDelayDone == \E t \in Waiting("mismatchDelay") : MismatchDelayDoneOf(t)

\* flipCardBack of the first card: the shake ended
Back1DoneOf(t) == Resume(t, FlipCardsBack(Unflip(State, t, t.c1), t, 2))

Back1Done == \E t \in Waiting("back1") : Back1DoneOf(t)

\* flipCardBack of the second card: the shake ended
Back2DoneOf(t) == Resume(t, FlipCardsBack(Unflip(State, t, t.c2), t, 3))

Back2Done == \E t \in Waiting("back2") : Back2DoneOf(t)

\* evaluateMove: the 1000 ms pause before the opponent's move ended
AIWaitDone ==
  /\ MovesLeft
  /\ \E t \in Waiting("aiWait") : Resume(t, MakeAIMove(State, t))

\* MemoryAI.makeMove: the thinking delay ended, the move is decided
ThinkingDone ==
  \E t \in Waiting("thinking") :
    \E d \in MakeMove(t.avail, memory, probabilityMatrix, playerPatterns, ConfigOf(State)) :
      Resume(t, AIFlipFirst(State, [NewTask EXCEPT !.c1 = d.cards[1],
                                                   !.c2 = d.cards[2],
                                                   !.strategy = d.strategy,
                                                   !.match = t.match]))

\* makeAIMove: the flip animation of the first card ended
AIFlip1Done ==
  \E t \in Waiting("aiFlip1") :
    Resume(t, Suspend([State EXCEPT !.isAnimating = FALSE,
                                    !.flippedCards = Append(@, t.c1)],
                      [t EXCEPT !.pc = "aiPause"]))

\* makeAIMove: the 500 ms pause between the two cards ended
AIPauseDoneOf(t) ==
  \E r1, r2 \in RetainOutcomes(State) : Resume(t, AIFlipSecond(State, t, r1, r2))

AIPauseDone == \E t \in Waiting("aiPause") : AIPauseDoneOf(t)

\* makeAIMove: the flip animation of the second card ended
AIFlip2DoneOf(t) ==
  \E r1, r2 \in RetainOutcomes(State) :
    Resume(t, AIObserveAndEvaluate(
                [State EXCEPT !.isAnimating = FALSE,
                              !.flippedCards = Append(@, t.c2)],
                t, r1, r2))

AIFlip2Done == \E t \in Waiting("aiFlip2") : AIFlip2DoneOf(t)

Next ==
  \/ \E i \in Indices(ConfigOf(State)) : HandleCardClick(i)
  \/ RestartGame
  \/ \E d \in (PlayLevels \ {difficulty}) \cup {"unknown"} : ChangeDifficulty(d)
  \/ FlipDone
  \/ Matched1Done
  \/ Matched2Done
  \/ MismatchDelayDone
  \/ Back1Done
  \/ Back2Done
  \/ AIWaitDone
  \/ ThinkingDone
  \/ AIFlip1Done
  \/ AIPauseDone
  \/ AIFlip2Done

Spec == Init /\ [][Next]_vars

(***************************************************************************)
(* decide() on its own: MemoryAI.makeMove for every belief that            *)
(* observations of a board can build and every list of available cards.    *)
(***************************************************************************)
\* observeCard(cardIndex, symbol of that card, isPlayerMove), before the decision
DecideObserve ==
  \E i \in DOMAIN cards : \E isPlayerMove, retain \in BOOLEAN :
    /\ tasks = <<>>
    \* the human reveals explored are reveals of card 0
    /\ isPlayerMove => Len(playerPatterns) < MaxLog /\ i = 0
    /\ Commit(ObserveCard(State, i, cards[i].symbol, isPlayerMove, retain))
    /\ UNCHANGED tasks

\* makeMove(availableCards) for a non-empty ascending list of card indices; the
\* call and its result are kept as the one chain in tasks
DecideMakeMove ==
  \E available \in (SUBSET DOMAIN cards) \ {{}} :
    \E d \in MakeMove(SortedSeq(available), memory, probabilityMatrix,
                      playerPatterns, ConfigOf(State)) :
      /\ tasks' = <<[NewTask EXCEPT !.pc = "decided",
                                     !.avail = SortedSeq(available),
                                     !.c1 = d.cards[1], !.c2 = d.cards[2],
                                     !.strategy = d.strategy]>>
      /\ UNCHANGED <<cards, flippedCards, matchedPairs, currentPlayer, playerScore,
                     aiScore, moves, isGameActive, difficulty, isAnimating,
                     domFlipped, boardGen, memory, probabilityMatrix,
                     playerPatterns, memoryAccuracy, explorationRate, knownPairs,
                     gameResults, crashed>>

NextDecide == DecideObserve \/ DecideMakeMove

SpecDecide == Init /\ [][NextDecide]_vars

\* the calls of makeMove that SpecDecide has answered
Decided == {t \in Chains : t.pc = "decided"}

(***************************************************************************)
(* Properties                                                              *)
(***************************************************************************)

\* C1: for every belief and every availableCards with at least two entries, the
\* two indices makeMove returns are distinct.
C1_DecideDistinct ==
  \A t \in Decided : Len(t.avail) >= 2 => t.c1 # t.c2

\* C2: for every belief and every availableCards with at least two entries, both
\* indices makeMove returns are members of availableCards, whichever strategy
\* produced them.
C2_DecideWithinAvailable ==
  \A t \in Decided :
    Len(t.avail) >= 2 => Includes(t.avail, t.c1) /\ Includes(t.avail, t.c2)

\* C2 witness: a probability-strategy answer over a proper subset of the board
\* while some remembered card is not available
C2_Witness ==
  \E t \in Decided :
    /\ Len(t.avail) >= 2
    /\ Len(t.avail) < Cardinality(DOMAIN cards)
    /\ t.strategy = "probability"
    /\ \E k \in 1 .. Len(memory) : ~Includes(t.avail, memory[k].index)

\* the requirements of a reveal request, as the specification lists them
RevealAllowed(cardIndex) ==
  /\ currentPlayer = "player"
  /\ isGameActive
  /\ \A k \in 1 .. Len(flippedCards) : flippedCards[k] # cardIndex
  /\ \A k \in 1 .. Len(matchedPairs) :
       matchedPairs[k][1] # cardIndex /\ matchedPairs[k][2] # cardIndex
  /\ Len(flippedCards) < 2

C4_AtMostTwoRevealed == Len(flippedCards) <= 2

\* C5: no reveal, by the human or by the opponent, adds a card that already belongs
\* to a matched pair to the revealed list.
C5_NoMatchedCardRevealed ==
  [][\A i \in DOMAIN cards :
       flippedCards' = Append(flippedCards, i) => ~IsCardMatched(State, i)]_vars

\* C6: every entry of the matched set is two different cards with the same pair
\* identifier, and no card is in two entries.
C6_MatchedPairsWellFormed ==
  /\ \A k \in 1 .. Len(matchedPairs) :
       /\ matchedPairs[k][1] # matchedPairs[k][2]
       /\ matchedPairs[k][1] \in DOMAIN cards /\ matchedPairs[k][2] \in DOMAIN cards
       /\ cards[matchedPairs[k][1]].pairId = cards[matchedPairs[k][2]].pairId
  /\ \A k, l \in 1 .. Len(matchedPairs) :
       k # l => Range(matchedPairs[k]) \cap Range(matchedPairs[l]) = {}

\* the chain that resolves a pair was started by the opponent's move
ByOpponent(t) == t.strategy # "none"

\* the step of chain t that reveals the second card of a pair and resolves it
RevealEnds(t) ==
  \/ t.pc = "flip" /\ FlipDoneOf(t)
  \/ t.pc = "aiPause" /\ AIPauseDoneOf(t)
  \/ t.pc = "aiFlip2" /\ AIFlip2DoneOf(t)

\* C7: when a pair with equal pair identifiers is resolved, the pair joins the
\* matched set, the score of the side whose reveal completed it, and only that
\* score, grows by 1, and the turn does not change.
C7_MatchScoresRevealer ==
  [][\A t \in Chains :
       (RevealEnds(t) /\ Len(matchedPairs') = Len(matchedPairs) + 1) =>
         /\ matchedPairs' = Append(matchedPairs, <<flippedCards'[1], flippedCards'[2]>>)
         /\ currentPlayer' = currentPlayer
         /\ IF ByOpponent(t)
            THEN aiScore' = aiScore + 1 /\ playerScore' = playerScore
            ELSE playerScore' = playerScore + 1 /\ aiScore' = aiScore]_vars

\* the step of chain t that ends the resolution of a pair that did not match
MismatchEnds(t) ==
  \/ t.pc = "back2" /\ Back2DoneOf(t)
  \/ t.pc = "back1" /\ Back1DoneOf(t) /\ ~HasElement(State, t.c2)
  \/ /\ t.pc = "mismatchDelay" /\ MismatchDelayDoneOf(t)
     /\ ~HasElement(State, t.c1) /\ ~HasElement(State, t.c2)

\* C8: when the resolution of a pair with different pair identifiers ends, the
\* matched set and the scores are as they were and the turn is with the other side:
\* the opponent after a human pair, the player after an opponent pair.
C8_MismatchPassesTurn ==
  [][\A t \in Chains :
       MismatchEnds(t) =>
         /\ matchedPairs' = matchedPairs
         /\ playerScore' = playerScore /\ aiScore' = aiScore
         /\ currentPlayer' = IF ByOpponent(t) THEN "player" ELSE "ai"]_vars

\* C9: in a match endGame runs at most once, and only with all pairs counted, and
\* the count of matched pairs never exceeds N/2.
C9_FinishedExactlyOnce ==
  /\ Len(gameResults) <= 1
  /\ Len(matchedPairs) <= TotalPairsOf(State)
  /\ Len(gameResults) = 1 => Len(matchedPairs) = TotalPairsOf(State)

\* C10: between resolution cycles the active flag is false exactly when every card
\* of the board belongs to a matched pair.
C10_ActiveIffUnfinished ==
  tasks = <<>> =>
    (~isGameActive <=> \A i \in DOMAIN cards : IsCardMatched(State, i))

(***************************************************************************)
(* endGame() on its own: the end of a match for every board of the three   *)
(* smaller levels and every split of its pairs between the two sides.      *)
(***************************************************************************)
\* the levels whose boards the end of a match is explored on
FinishLevels == {"beginner", "intermediate", "advanced"}

\* the pairs of a board in the order of their pair identifiers
PairsOf(board) ==
  [k \in 1 .. (Cardinality(DOMAIN board) \div 2) |->
     SortedSeq({i \in DOMAIN board : board[i].pairId = k - 1})]

\* evaluateMove just before its isGameComplete test finds the last pair matched:
\* all pairs are in matchedPairs, playerPairs of them were the player's
InitFinish ==
  \E level \in FinishLevels : \E board \in GenerateCards(DIFFICULTIES[level]) :
    \E playerPairs \in 0 .. (TotalCards(DIFFICULTIES[level]) \div 2) :
      \E last \in {"player", "ai"} :
        /\ StateIs([FreshState(level, board) EXCEPT
                      !.matchedPairs = PairsOf(board),
                      !.playerScore = playerPairs,
                      !.aiScore = Len(PairsOf(board)) - playerPairs,
                      !.moves = Len(PairsOf(board)),
                      !.currentPlayer = last])
        /\ tasks = <<>>

\* evaluateMove: if (this.isGameComplete()) { await this.endGame(); return; }
FinishEndGame ==
  /\ isGameActive
  /\ IsGameComplete(State)
  /\ Commit(EndGame(State))
  /\ UNCHANGED tasks

NextFinish == FinishEndGame

SpecFinish == InitFinish /\ [][NextFinish]_vars

(***************************************************************************)
(* The match that follows a restart which found the resolution of a human  *)
(* mismatch in flight: restartGame leaves the chain alone, so the new      *)
(* match begins with the chain waiting in handleMismatch.  No restart      *)
(* follows; boards are counted from this match.                            *)
(***************************************************************************)
CarryLevel == "intermediate"

\* the chain of evaluateMove that found cards c1 and c2 of the previous board
\* different, with d milliseconds of its 1500 left
CarriedMismatch(c1, c2, d) ==
  [NewTask EXCEPT !.pc = "mismatchDelay", !.c1 = c1, !.c2 = c2,
                  !.s1 = CardPairs(DIFFICULTIES[CarryLevel])[0].symbol,
                  !.s2 = CardPairs(DIFFICULTIES[CarryLevel])[2].symbol,
                  !.isMatch = FALSE, !.due = d, !.match = -1]

InitCarry ==
  \E board \in GenerateCards(DIFFICULTIES[CarryLevel]) :
    \E c1, c2 \in Indices(DIFFICULTIES[CarryLevel]) :
      \E d \in {e \in 0 .. mismatchDelay : e % (cardFlip \div EventsPerFlip) = 0} :
        /\ c1 # c2
        /\ StateIs(FreshState(CarryLevel, board))
        /\ tasks = <<CarriedMismatch(c1, c2, d)>>

\* the resolution cycles still explored
CarryLeft == moves < MaxCarryMoves

NextCarry ==
  \/ CarryLeft /\ \E i \in Indices(ConfigOf(State)) : HandleCardClick(i)
  \/ CarryLeft /\ FlipDone
  \/ CarryLeft /\ Matched1Done
  \/ CarryLeft /\ Matched2Done
  \/ CarryLeft /\ MismatchDelayDone
  \/ CarryLeft /\ Back1Done
  \/ CarryLeft /\ Back2Done
  \/ CarryLeft /\ AIWaitDone
  \/ CarryLeft /\ ThinkingDone
  \/ CarryLeft /\ AIFlip1Done
  \/ CarryLeft /\ AIPauseDone
  \/ CarryLeft /\ AIFlip2Done

SpecCarry == InitCarry /\ [][NextCarry]_vars

\* the winner the specification assigns to a pair of scores
WinnerOf(p, a) == IF p > a THEN "player" ELSE IF a > p THEN "ai" ELSE "tie"

\* C11: every reported result names the player as winner iff its player score is the
\* higher one, the opponent iff its opponent score is the higher one, and a tie iff
\* they are equal; the scores it reports are the score counters of the match at
\* the moment it finishes, which add up to the number of matched pairs.
C11_WinnerFromScores ==
  [][Len(gameResults') = Len(gameResults) + 1 =>
       LET r == gameResults'[Len(gameResults')]
       IN  /\ r.playerScore = playerScore' /\ r.aiScore = aiScore'
           /\ r.playerScore = playerScore /\ r.aiScore = aiScore
           /\ r.playerScore + r.aiScore = Len(matchedPairs')
           /\ (r.winner = "player" <=> r.playerScore > r.aiScore)
           /\ (r.winner = "ai" <=> r.aiScore > r.playerScore)
           /\ (r.winner = "tie" <=> r.aiScore = r.playerScore)
           /\ r.winner = WinnerOf(r.playerScore, r.aiScore)]_vars

\* C11 witness: a match on the 6-card board finished 1 to 2, and one on the 4-card
\* board is finished with a tie
C11_Witness ==
  /\ Len(gameResults) = 1
  /\ \/ /\ gameResults[1].winner = "tie"
        /\ gameResults[1].playerScore = 1 /\ gameResults[1].aiScore = 1
     \/ /\ gameResults[1].winner = "ai"
        /\ gameResults[1].playerScore = 1 /\ gameResults[1].aiScore = 2

\* C12: once a match is finished and until a restart or difficulty change makes a
\* new one, no step changes the scores, the matched set, the turn or the revealed
\* list, and the match is not finished a second time.
C12_FinishedIsTerminal ==
  [][(~isGameActive /\ boardGen' = boardGen) =>
       /\ playerScore' = playerScore /\ aiScore' = aiScore
       /\ matchedPairs' = matchedPairs
       /\ currentPlayer' = currentPlayer
       /\ flippedCards' = flippedCards
       /\ gameResults' = gameResults
       /\ ~isGameActive']_vars

\* the step of chain t that ends the resolution of a pair that matched
MatchEnds(t) ==
  \/ t.pc = "matched2" /\ Resume(t, MarkCardsAsMatched(State, t, 3))
  \/ /\ t.pc = "matched1" /\ Resume(t, MarkCardsAsMatched(State, t, 2))
     /\ ~HasElement(State, t.c2)

\* the cards that are neither matched nor revealed, in ascending order
Unrevealed ==
  SortedSeq({i \in DOMAIN cards :
               /\ \A k \in 1 .. Len(matchedPairs) : ~Includes(matchedPairs[k], i)
               /\ ~Includes(flippedCards, i)})

\* a chain that waits for the pause before the opponent's move has just begun
OpponentCalled == \E k \in 1 .. Len(tasks') :
                    tasks'[k].pc = "aiWait" /\ tasks'[k].due = aiMoveDelay

\* the chain t began in the current match: no restart or difficulty change came
\* after the human reveal that started it
SinceNoRestart(t) == t.match = boardGen

\* C13: without a restart or difficulty change since the human reveal: when the
\* resolution of a human mismatch ends in an unfinished match, the turn is the
\* opponent's and the opponent's move is under way; the opponent is asked for a
\* move over the cards that are neither matched nor revealed; the two cards it
\* returns are revealed, observed as the opponent's and resolved as a human pair
\* is; after an opponent match in an unfinished match the opponent moves again,
\* and after an opponent mismatch the turn is the player's and no opponent move
\* begins.
C13_OpponentTurnAfterMismatch ==
  [][\A t \in Chains : SinceNoRestart(t) =>
       /\ (MismatchEnds(t) /\ ~ByOpponent(t) /\ isGameActive') =>
            currentPlayer' = "ai" /\ OpponentCalled
       /\ (t.pc = "aiWait" /\ Resume(t, MakeAIMove(State, t))
             /\ currentPlayer = "ai" /\ Len(Unrevealed) >= 2) =>
            \E k \in 1 .. Len(tasks') :
               tasks'[k].pc = "thinking" /\ tasks'[k].avail = Unrevealed
       /\ (RevealEnds(t) /\ ByOpponent(t) /\ moves' # moves) =>
            /\ playerPatterns' = playerPatterns
            /\ flippedCards \o <<t.c2>> = <<t.c1, t.c2>>
            /\ \A k \in 1 .. Len(tasks') :
                 tasks'[k].pc \in {"matched1", "matched2", "mismatchDelay"}
                   /\ tasks'[k].due = Delay(tasks'[k].pc, State) =>
                     /\ tasks'[k].c1 = t.c1 /\ tasks'[k].c2 = t.c2
                     /\ tasks'[k].isMatch = (cards[t.c1].pairId = cards[t.c2].pairId)
       /\ (MatchEnds(t) /\ ByOpponent(t) /\ isGameActive') =>
            currentPlayer' = "ai" /\ OpponentCalled
       /\ (MismatchEnds(t) /\ ByOpponent(t) /\ isGameActive') =>
            currentPlayer' = "player" /\ ~OpponentCalled]_vars

\* the chain t is in a resolution cycle: in evaluateMove or in the opponent's
\* move that evaluateMove started (a chain at pc "flip" is a human reveal that
\* has not reached evaluateMove)
InCycle(t) == t.pc # "flip"

\* C14: at any time at most one resolution cycle is in flight.
C14_OneCycleInFlight == Len(SelectSeq(tasks, InCycle)) <= 1

\* the match state and the opponent's belief
MatchAndBelief ==
  <<flippedCards, matchedPairs, currentPlayer, playerScore, aiScore, moves,
    isGameActive, memory, probabilityMatrix, playerPatterns, knownPairs,
    memoryAccuracy, explorationRate>>

\* a match made by a restart or difficulty change in which the player has made no
\* reveal: it is as setupNewGame left it and no chain in flight began in it
Untouched ==
  /\ boardGen >= 1
  /\ flippedCards = <<>> /\ matchedPairs = <<>> /\ currentPlayer = "player"
  /\ playerScore = 0 /\ aiScore = 0 /\ moves = 0 /\ isGameActive
  /\ memory = <<>> /\ probabilityMatrix = <<>> /\ playerPatterns = <<>>
  /\ knownPairs = {}
  /\ \A t \in Chains : t.match # boardGen

\* C15: a cycle that was in flight when the match was made changes neither the
\* new match state nor the reset belief: until the player makes a reveal in the
\* new match (or restarts again), the turn, the revealed list, the matched set,
\* the scores, the move counter and the belief stay as setupNewGame left them.
C15_RestartBetweenCycles ==
  [][(Untouched /\ boardGen' = boardGen
        /\ \A k \in 1 .. Len(tasks') : tasks'[k].match # boardGen) =>
       UNCHANGED MatchAndBelief]_vars

\* C16: while the turn is the opponent's, a human click on a card changes neither
\* the match state nor the belief and starts no chain that would.
C16_NoRevealOnOpponentTurn ==
  [][\A i \in DOMAIN cards :
       (currentPlayer = "ai" /\ HandleCardClick(i)) =>
         UNCHANGED <<MatchAndBelief, tasks>>]_vars

\* the turn is the opponent's, between its two reveals, and the player clicks a
\* face-down card that only the turn keeps from being revealed
C16_Witness ==
  /\ currentPlayer = "ai"
  /\ \E t \in Chains : t.pc = "aiPause" /\ ByOpponent(t)
  /\ MovesLeft /\ Len(tasks) < MaxTasks
  /\ \E i \in DOMAIN cards :
       /\ ~isAnimating /\ i \notin domFlipped
       /\ IsValidCardClickAnyTurn(State, i)
       /\ ENABLED HandleCardClick(i)

(***************************************************************************)
(* The opponent's learning on its own: recordMoveResult after any outcome, *)
(* reset() at a new match and setDifficulty at a change of level, for the  *)
(* four levels.                                                            *)
(***************************************************************************)
InitLearn ==
  \E level \in LEVELS :
    /\ StateIs(FreshState(level, CardPairs(DIFFICULTIES[level])))
    /\ tasks = <<>>

\* recordMoveResult(cards, wasMatch, [symbol1, symbol2])
LearnRecord(wasMatch, symbol1) ==
  Commit(RecordMoveResult(State, wasMatch, symbol1)) /\ UNCHANGED tasks

\* reset(), which setupNewGame calls for every new match
LearnReset == Commit(AIReset(State)) /\ UNCHANGED tasks

\* changeDifficulty up to setupNewGame
LearnSetDifficulty(newDifficulty) ==
  Commit(ChangeDifficultyTo(State, newDifficulty)) /\ UNCHANGED tasks

NextLearn ==
  \/ \E wasMatch \in BOOLEAN : \E symbol1 \in SYMBOLS : LearnRecord(wasMatch, symbol1)
  \/ LearnReset
  \/ \E newDifficulty \in LEVELS : LearnSetDifficulty(newDifficulty)

SpecLearn == InitLearn /\ [][NextLearn]_vars

\* the floor of the recall accuracy at the configured level, in thousandths
AccuracyFloor == (8 * ConfigOf(State).aiAccuracy) \div 10

\* C17: at each of the four levels the recall accuracy stays between 0.8 times
\* the level's base accuracy and 0.99; recording a match raises it by 0.01 but not
\* above 0.99, recording a miss lowers it by 0.005 but not below the floor.
C17_AccuracyWithinBounds ==
  /\ [](10 * memoryAccuracy >= 8 * ConfigOf(State).aiAccuracy /\ memoryAccuracy <= 990)
  /\ [][\A wasMatch \in BOOLEAN : \A symbol1 \in SYMBOLS :
          LearnRecord(wasMatch, symbol1) =>
            memoryAccuracy' = IF wasMatch
                              THEN Min(990, memoryAccuracy + 10)
                              ELSE Max(AccuracyFloor, memoryAccuracy - 5)]_vars

\* at the hardest level misses have taken the accuracy down to the floor after
\* every symbol was matched
C17_Witness ==
  /\ difficulty = "expert"
  /\ memoryAccuracy = AccuracyFloor
  /\ knownPairs = SYMBOLS

\* C18: a step that makes a new match (a restart or a difficulty change) leaves
\* every field of the belief at its initial value: memory, probabilities, the
\* log of the player's reveals and the known pairs are empty, the recall accuracy
\* is the base accuracy of the configured level and the exploration rate is 0.3.
C18_BeliefFreshAtStart ==
  [][boardGen' = boardGen + 1 =>
       /\ memory' = <<>> /\ probabilityMatrix' = <<>>
       /\ playerPatterns' = <<>> /\ knownPairs' = {}
       /\ memoryAccuracy' = DIFFICULTIES[difficulty'].aiAccuracy
       /\ explorationRate' = 300]_vars

\* the match as setup has to leave it: the player's turn, a board of rows x cols
\* cards of the configured level in which every pair identifier below N/2 is on
\* exactly two cards that carry the pair's symbol, nothing revealed or matched,
\* scores and move counter 0, the match active and the belief mapping empty
SetupDone ==
  /\ currentPlayer = "player"
  /\ DOMAIN cards = Indices(DIFFICULTIES[difficulty])
  /\ \A p \in 0 .. (TotalCards(DIFFICULTIES[difficulty]) \div 2 - 1) :
       /\ Cardinality({i \in DOMAIN cards : cards[i].pairId = p}) = 2
       /\ \A i \in DOMAIN cards :
            cards[i].pairId = p => cards[i].symbol = p % Cardinality(SYMBOLS)
  /\ flippedCards = <<>> /\ matchedPairs = <<>>
  /\ playerScore = 0 /\ aiScore = 0 /\ moves = 0
  /\ isGameActive = TRUE
  /\ memory = <<>>

\* C19: when setup completes, at the initial start and after every restart and
\* valid difficulty change, the match is in the state SetupDone describes.
C19_SetupGivesPlayerTurn ==
  /\ SetupDone
  /\ [][boardGen' = boardGen + 1 => SetupDone']_vars

\* setup has just run for a smaller board while the opponent of the previous
\* match was thinking
C19_Witness ==
  /\ boardGen = 1 /\ SetupDone
  /\ difficulty = "beginner"
  /\ \E t \in Chains : t.pc = "thinking" /\ Len(t.avail) > TotalCards(DIFFICULTIES[difficulty])

(***************************************************************************)
(* The opponent's configuration: the steps of SpecLearn and setDifficulty  *)
(* called with values that are not levels.                                 *)
(***************************************************************************)
UnknownLevels == {"unknown", "Expert"}

\* setDifficulty(newDifficulty) for a value that is not a level
ConfigureUnknown(newDifficulty) ==
  Commit(SetDifficultyOf(State, newDifficulty).st) /\ UNCHANGED tasks

NextConfigure ==
  \/ ~crashed /\ \E wasMatch \in BOOLEAN : \E symbol1 \in SYMBOLS :
                   LearnRecord(wasMatch, symbol1)
  \/ ~crashed /\ LearnReset
  \/ ~crashed /\ \E newDifficulty \in LEVELS : LearnSetDifficulty(newDifficulty)
  \/ ~crashed /\ \E newDifficulty \in UnknownLevels : ConfigureUnknown(newDifficulty)

SpecConfigure == InitLearn /\ [][NextConfigure]_vars

\* C20: setDifficulty called with a value that is not one of the four levels does
\* not throw and changes nothing: level, accuracy profile, recall accuracy and
\* belief are as before the call.
C20_UnknownLevelIsNoOp ==
  [][\A newDifficulty \in UnknownLevels :
       ConfigureUnknown(newDifficulty) => UNCHANGED vars]_vars

(***************************************************************************)
(* changeDifficulty called with any value, on a match in which cards have  *)
(* been observed.  DIFFICULTIES is an object literal, so the guard         *)
(* !DIFFICULTIES[difficulty] also finds the properties every object        *)
(* inherits from Object.prototype.                                         *)
(***************************************************************************)
\* names that are no level and that DIFFICULTIES[name] finds, as functions
InheritedKeys == {"constructor", "toString"}

\* the guard of changeDifficulty: DIFFICULTIES[difficulty] is truthy
IsDifficultyKey(newDifficulty) == newDifficulty \in LEVELS \cup InheritedKeys

\* changeDifficulty(newDifficulty) with the board the shuffle produced; for an
\* inherited key config is a function without rows, cols or aiAccuracy:
\* memoryAccuracy becomes undefined and generateCards makes no card
ChangeDifficultyOf(st, newDifficulty, board) ==
  IF ~IsDifficultyKey(newDifficulty) THEN st
  ELSE IF newDifficulty \in LEVELS
  THEN SetupNewGame(ChangeDifficultyTo(st, newDifficulty), board)
  ELSE SetupNewGame(AIReset([st EXCEPT !.difficulty = newDifficulty,
                                       !.memoryAccuracy = Undefined]), <<>>)

\* the boards generateCards can make for the value
BoardsOf(newDifficulty) ==
  IF newDifficulty \in LEVELS THEN GenerateCards(DIFFICULTIES[newDifficulty])
  ELSE {<<>>}

RequestDifficulty(newDifficulty) ==
  /\ difficulty \in LEVELS /\ boardGen < MaxRestarts
  /\ \E board \in BoardsOf(newDifficulty) :
       Commit(ChangeDifficultyOf(State, newDifficulty, board))
  /\ UNCHANGED tasks

\* observeCard on the current board
RequestObserve == difficulty \in LEVELS /\ DecideObserve

NextRequest ==
  \/ \E newDifficulty \in PlayLevels \cup UnknownLevels \cup InheritedKeys :
       RequestDifficulty(newDifficulty)
  \/ RequestObserve

SpecRequest == Init /\ [][NextRequest]_vars

\* C21: changeDifficulty called with a value that is not one of the four levels
\* changes nothing: difficulty, board, match state, the opponent's configuration
\* and belief are as before and no new match is made.
C21_UnrecognizedLevelIgnored ==
  [][\A newDifficulty \in UnknownLevels \cup InheritedKeys :
       RequestDifficulty(newDifficulty) => UNCHANGED vars]_vars

\* availableCards holds two different cards that are both remembered, with the
\* same remembered symbol
KnownPairExists(availableCards) ==
  \E i, j \in Range(availableCards) :
    /\ i # j /\ MemHas(memory, i) /\ MemHas(memory, j)
    /\ MemGet(memory, i) = MemGet(memory, j)

\* availableCards holds a remembered card and a card that is not remembered whose
\* estimated probability of carrying the remembered symbol is above 0.3
CandidateExists(availableCards) ==
  \E k, u \in Range(availableCards) :
    /\ MemHas(memory, k) /\ ~MemHas(memory, u)
    /\ FracGt(ProbabilityOf(probabilityMatrix, u, MemGet(memory, k)), <<3, 10>>)

\* C22: makeMove answers with a known pair whenever availableCards holds one; it
\* answers by the probability strategy only when there is no known pair and some
\* remembered card has a candidate; it explores only when neither is the case.
C22_StrategiesInPriorityOrder ==
  \A t \in Decided :
    /\ KnownPairExists(t.avail) => t.strategy = "known"
    /\ t.strategy = "known" => KnownPairExists(t.avail)
    /\ t.strategy = "probability" <=>
         (~KnownPairExists(t.avail) /\ CandidateExists(t.avail))
    /\ t.strategy \in {"explore", "area", "fallback"} <=>
         (~KnownPairExists(t.avail) /\ ~CandidateExists(t.avail))

\* a known-pair answer given while a remembered card also had a candidate
C22_Witness ==
  \E t \in Decided :
    t.strategy = "known" /\ KnownPairExists(t.avail) /\ CandidateExists(t.avail)

\* the remembered cards of availableCards, in the order of availableCards
Believed(availableCards) ==
  SelectSeq(availableCards, LAMBDA x : MemHas(memory, x))

\* positions p < q of seq hold cards with the same remembered symbol
SameSymbolAt(seq, p, q) ==
  p < q /\ MemGet(memory, seq[p]) = MemGet(memory, seq[q])

\* C23: when availableCards holds a known pair, makeMove has one possible answer
\* for the belief and availableCards: the pair at the first positions p < q, in
\* the order of availableCards restricted to remembered cards (p first, then q),
\* whose remembered symbols are equal.
C23_KnownPairDeterministic ==
  \A t \in Decided :
    KnownPairExists(t.avail) =>
      LET am == Believed(t.avail)
      IN  /\ Cardinality(MakeMove(t.avail, memory, probabilityMatrix,
                                   playerPatterns, ConfigOf(State))) = 1
          /\ \E p, q \in 1 .. Len(am) :
               /\ SameSymbolAt(am, p, q)
               /\ \A p2, q2 \in 1 .. Len(am) :
                    SameSymbolAt(am, p2, q2) => p < p2 \/ (p = p2 /\ q <= q2)
               /\ t.c1 = am[p] /\ t.c2 = am[q]

\* a known-pair answer while availableCards held two known pairs
C23_Witness ==
  \E t \in Decided :
    /\ t.strategy = "known"
    /\ \E p, q, p2, q2 \in 1 .. Len(Believed(t.avail)) :
         /\ SameSymbolAt(Believed(t.avail), p, q)
         /\ SameSymbolAt(Believed(t.avail), p2, q2)
         /\ <<p, q>> # <<p2, q2>>

\* the step of chain t in which makeAIMove finds the turn with the opponent and
\* fewer than two cards available
TooFewToMove(t) ==
  /\ t.pc = "aiWait" /\ Resume(t, MakeAIMove(State, t))
  /\ currentPlayer = "ai" /\ Len(GetAvailableCards(State)) < 2

\* what makeAIMove hands its caller after a turn it played
CompletedTurnValue ==
  MakeAIMoveValue([State EXCEPT !.currentPlayer = "ai", !.flippedCards = <<>>,
                                !.matchedPairs = <<>>])

\* C24: when the opponent is to move and fewer than two cards are available,
\* makeAIMove does not throw, reveals no card, changes neither the match state nor
\* the belief, starts no further step of the turn, and hands its caller a value
\* that differs from the one it hands over after a turn it played.
C24_TooFewCardsSignalled ==
  [][\A t \in Chains :
       TooFewToMove(t) =>
         /\ crashed' = crashed
         /\ domFlipped' = domFlipped
         /\ UNCHANGED MatchAndBelief
         /\ Len(tasks') = Len(tasks) - 1
         /\ MakeAIMoveValue(State) # CompletedTurnValue]_vars

\* C25: makeMove called with exactly one available card answers by the fallback
\* of the exploration strategy with a pair whose two elements are both that card.
C25_SingleCardRepeated ==
  \A t \in Decided :
    Len(t.avail) = 1 =>
      /\ t.strategy = "fallback"
      /\ Includes(t.avail, t.c1) /\ Includes(t.avail, t.c2)

\* C26: no sequence of clicks, restarts and difficulty changes makes a step of the
\* controller end with an uncaught error; in particular no step evaluates or
\* observes a card index that the current board does not have.
C26_NoUnhandledError == crashed = FALSE

(***************************************************************************)
(* generateCards step by step, for the four levels: the pairs in order,    *)
(* then the loop of shuffleArray, one swap per step.  The chain in tasks   *)
(* holds the loop index i in c1.                                           *)
(***************************************************************************)
\* rows and cols of the four levels as the source has them
SourceRows == [beginner |-> 4, intermediate |-> 4, advanced |-> 6, expert |-> 6]

SourceCols == [beginner |-> 4, intermediate |-> 6, advanced |-> 6, expert |-> 8]

InitShuffle ==
  \E level \in LEVELS :
    /\ StateIs(FreshState(level, CardPairs(DIFFICULTIES[level])))
    /\ tasks = <<[NewTask EXCEPT !.pc = "shuffle",
                                 !.c1 = TotalCards(DIFFICULTIES[level]) - 1]>>

\* one pass of the loop: j = floor(random * (i + 1)), swap, i--
ShuffleStep ==
  \E t \in Chains :
    /\ t.pc = "shuffle" /\ t.c1 > 0
    /\ \E j \in 0 .. t.c1 :
         Commit([State EXCEPT !.cards = Swap(cards, t.c1, j)])
    /\ tasks' = <<[t EXCEPT !.c1 = t.c1 - 1]>>

NextShuffle == ShuffleStep

SpecShuffle == InitShuffle /\ [][NextShuffle]_vars

\* how many positions of board hold card
CopiesOf(board, card) == Cardinality({i \in DOMAIN board : board[i] = card})

\* C27: at each of the four levels rows x cols is even, and the board, before,
\* during and after the shuffle, has N = rows x cols cards on positions 0 .. N-1,
\* uses exactly the pair identifiers 0 .. N/2-1, each at exactly two positions,
\* and holds every (symbol, pair id) card as often as the unshuffled board.
C27_BoardIsPermutationOfPairs ==
  /\ \A level \in LEVELS : (SourceRows[level] * SourceCols[level]) % 2 = 0
  /\ TotalCards(ConfigOf(State)) % 2 = 0
  /\ DOMAIN cards = 0 .. (TotalCards(ConfigOf(State)) - 1)
  /\ {cards[i].pairId : i \in DOMAIN cards}
       = 0 .. (TotalCards(ConfigOf(State)) \div 2 - 1)
  /\ \A p \in 0 .. (TotalCards(ConfigOf(State)) \div 2 - 1) :
       Cardinality({i \in DOMAIN cards : cards[i].pairId = p}) = 2
  /\ \A i \in DOMAIN cards :
       CopiesOf(cards, cards[i]) = CopiesOf(CardPairs(ConfigOf(State)), cards[i])

\* the shuffle of the largest board has ended and has parted every pair
C27_Witness ==
  /\ difficulty = "expert"
  /\ \E t \in Chains : t.pc = "shuffle" /\ t.c1 = 0
  /\ \A i \in DOMAIN cards :
       i + 1 \in DOMAIN cards => cards[i].pairId # cards[i + 1].pairId

(***************************************************************************)
(* observeCard on its own, for more human reveals than the log holds.  The *)
(* player reveals the cards of the board in cyclic order, so that the log  *)
(* shows which reveals it holds; the opponent reveals any card.            *)
(***************************************************************************)
\* the card the player reveals next
NextHumanCard ==
  IF playerPatterns = <<>> THEN 0
  ELSE (playerPatterns[Len(playerPatterns)] + 1) % TotalCards(ConfigOf(State))

\* observeCard(cardIndex, symbol, isPlayerMove)
LogObserve(cardIndex, isPlayerMove, retain) ==
  /\ isPlayerMove => cardIndex = NextHumanCard
  /\ Commit(ObserveCard(State, cardIndex, cards[cardIndex].symbol, isPlayerMove, retain))
  /\ UNCHANGED tasks

NextLog ==
  \E cardIndex \in DOMAIN cards : \E isPlayerMove, retain \in BOOLEAN :
    LogObserve(cardIndex, isPlayerMove, retain)

SpecLog == Init /\ [][NextLog]_vars

\* C28: an observation of a human reveal appends the index to the log of the
\* player's reveals, retained or not, and evicts the oldest entry beyond 20; an
\* observation of an opponent reveal leaves the log alone; the log never holds
\* more than 20 entries and holds the latest human reveals in their order.
C28_RecencyLogBounded ==
  /\ [](/\ Len(playerPatterns) <= 20
        /\ \A k \in 1 .. (Len(playerPatterns) - 1) :
             playerPatterns[k + 1] = (playerPatterns[k] + 1) % TotalCards(ConfigOf(State)))
  /\ [][\A cardIndex \in DOMAIN cards : \A retain \in BOOLEAN :
          /\ LogObserve(cardIndex, TRUE, retain) =>
               playerPatterns' = IF Len(playerPatterns) = 20
                                 THEN Tail(playerPatterns) \o <<cardIndex>>
                                 ELSE playerPatterns \o <<cardIndex>>
          /\ LogObserve(cardIndex, FALSE, retain) =>
               playerPatterns' = playerPatterns]_vars

\* the log is full, its oldest reveals have been evicted, and the reveal it got
\* last was not retained in memory
C28_Witness ==
  /\ Len(playerPatterns) = 20
  /\ playerPatterns[1] # 0
  /\ ~MemHas(memory, playerPatterns[20])

(***************************************************************************)
(* updateProbabilities on the boards of the source: the four levels with   *)
(* their rows and cols and the four symbols, the pairs as generateCards    *)
(* lays them out (what the shuffle does to them changes no count).         *)
(***************************************************************************)
\* GAME_CONSTANTS.SYMBOLS, by index
SourceSymbols == 0 .. 3

SourceConfig(level) ==
  [rows |-> SourceRows[level], cols |-> SourceCols[level],
   aiAccuracy |-> DIFFICULTIES[level].aiAccuracy]

\* generateCards: pair i has symbols[i % symbols.length]
SourceCardPairs(level) ==
  [k \in Indices(SourceConfig(level)) |->
     [symbol |-> (k \div 2) % Cardinality(SourceSymbols), pairId |-> k \div 2]]

\* updateProbabilities with symbolsPerType = totalCards / SYMBOLS.length
SourceUpdateProbabilities(mem, pm, level) ==
  LET total   == TotalCards(SourceConfig(level))
      nsym    == Cardinality(SourceSymbols)
      unknown == {i \in Indices(SourceConfig(level)) : ~MemHas(mem, i)}
      probs   == [s \in SourceSymbols |->
                    Frac(total - nsym * SymbolCount(mem, s),
                         nsym * (total - Len(mem)))]
  IN  [i \in (DOMAIN pm) \cup unknown |->
         IF i \in unknown THEN probs ELSE pm[i]]

\* the size of the belief mapping up to which observations are explored
MaxObserved == 2

InitEstimate ==
  \E level \in LEVELS :
    /\ StateIs(FreshState(level, SourceCardPairs(level)))
    /\ tasks = <<>>

\* observeCard(cardIndex, symbol of that card, isPlayerMove)
EstimateObserve ==
  \E cardIndex \in DOMAIN cards : \E isPlayerMove, retain \in BOOLEAN :
    /\ Len(memory) < MaxObserved
    \* the one human reveal explored is a reveal of card 0
    /\ isPlayerMove => playerPatterns = <<>> /\ cardIndex = 0
    /\ LET mem == IF retain THEN MemSet(memory, cardIndex, cards[cardIndex].symbol)
                  ELSE memory
       IN  Commit([State EXCEPT
                     !.memory = mem,
                     !.probabilityMatrix =
                        SourceUpdateProbabilities(mem, probabilityMatrix, difficulty),
                     !.playerPatterns =
                        IF isPlayerMove THEN TrackPlayerPattern(@, cardIndex) ELSE @])
    /\ UNCHANGED tasks

NextEstimate == EstimateObserve

SpecEstimate == InitEstimate /\ [][NextEstimate]_vars

\* the cards of the board that carry symbol s
ActualCount(s) == Cardinality({i \in DOMAIN cards : cards[i].symbol = s})

\* C29: at each of the four levels the per-symbol total of the probability update,
\* totalCards / 4, is the number of cards of the board that carry the symbol, and
\* once a card has been observed the estimate of every position outside the belief
\* mapping is, for every symbol s, max(0, (cards carrying s - entries of the belief
\* mapping with s) / (positions outside the belief mapping)).
C29_EstimateUsesActualCounts ==
  probabilityMatrix # <<>> =>
    /\ \A s \in SourceSymbols :
         Cardinality(SourceSymbols) * ActualCount(s) = Cardinality(DOMAIN cards)
    /\ \A i \in DOMAIN cards :
         ~MemHas(memory, i) =>
           /\ i \in DOMAIN probabilityMatrix
           /\ \A s \in SourceSymbols :
                probabilityMatrix[i][s]
                  = Frac(ActualCount(s) - SymbolCount(memory, s),
                         Cardinality(DOMAIN cards) - Len(memory))


\* the estimate held for position u of the symbol believed at position k
Estimate(u, k) == ProbabilityOf(probabilityMatrix, u, MemGet(memory, k))

\* the positions of available outside the belief mapping whose estimate of the
\* symbol believed at k is above 0.3
Candidates(available, k) ==
  {u \in available : /\ ~MemHas(memory, u)
                     /\ 10 * Estimate(u, k)[1] > 3 * Estimate(u, k)[2]}

\* [k, u] with k available and believed, u an available candidate of k whose
\* estimate no available position outside the belief mapping exceeds
ProbabilityPair(available, k, u) ==
  /\ k \in available /\ MemHas(memory, k)
  /\ u \in Candidates(available, k)
  /\ \A v \in available :
       ~MemHas(memory, v) =>
         Estimate(v, k)[1] * Estimate(u, k)[2] <= Estimate(u, k)[1] * Estimate(v, k)[2]

\* C30: for every belief and every list of available cards the probability strategy
\* answers either [k, u], k an available believed index and u an available unknown
\* index whose estimate of k's symbol is above 0.3 and maximal among the available
\* unknown indices, or nothing, and nothing only when no available believed index
\* has a candidate; the answers makeMove gave by this strategy have that form, and
\* its answers by the fallback were given when there was no candidate.
C30_ProbabilityMoveAboveThreshold ==
  /\ \A available \in (SUBSET DOMAIN cards) \ {{}} :
       LET d == ProbabilityBasedMove(SortedSeq(available), memory, probabilityMatrix)
       IN  IF \E k \in available : MemHas(memory, k) /\ Candidates(available, k) # {}
           THEN /\ d.strategy = "probability"
                /\ ProbabilityPair(available, d.cards[1], d.cards[2])
           ELSE d = NoMove
  /\ \A t \in Decided :
       /\ t.strategy = "probability" => ProbabilityPair(Range(t.avail), t.c1, t.c2)
       /\ t.strategy \notin {"known", "probability"} =>
            \A k \in Range(t.avail) :
              MemHas(memory, k) => Candidates(Range(t.avail), k) = {}

\* makeMove answered by the probability strategy after passing over an available
\* believed card whose symbol the partner's estimate puts at 0.3 or less
C30_Witness ==
  \E t \in Decided :
    /\ t.strategy = "probability"
    /\ \E k \in Range(t.avail) :
         /\ MemHas(memory, k) /\ k # t.c1
         /\ 10 * Estimate(t.c2, k)[1] <= 3 * Estimate(t.c2, k)[2]


(***************************************************************************)
(* Observation and learning within a resolution cycle                      *)
(***************************************************************************)
\* the step of chain t that ends the resolution of a pair
CycleEnds(t) == MatchEnds(t) \/ MismatchEnds(t)

\* the step of chain t that reveals the opponent's second card
OpponentRevealEnds(t) ==
  \/ t.pc = "aiPause" /\ AIPauseDoneOf(t) /\ ~HasElement(State, t.c2)
  \/ t.pc = "aiFlip2" /\ AIFlip2DoneOf(t)

\* the belief after card index was observed with the symbol it carries, retained
\* or not
ObservedTruly(mem, index) ==
  IF index \in DOMAIN cards
  THEN {mem, MemSet(mem, index, cards[index].symbol)}
  ELSE {}

\* a step in which reveals are observed and outcomes recorded as C31 states
ObservedOnceThenRecorded ==
  /\ \A t \in Chains :
       /\ (t.pc = "flip" /\ FlipDoneOf(t)) =>
            /\ crashed' = crashed
            /\ playerPatterns' = IF Len(playerPatterns) = 20
                                 THEN Tail(playerPatterns) \o <<t.c1>>
                                 ELSE playerPatterns \o <<t.c1>>
            /\ memory' \in ObservedTruly(memory, t.c1)
       /\ OpponentRevealEnds(t) =>
            /\ crashed' = crashed
            /\ playerPatterns' = playerPatterns
            /\ \E m \in ObservedTruly(memory, t.c1) : memory' \in ObservedTruly(m, t.c2)
            /\ moves' = moves + 1
       /\ CycleEnds(t) =>
            /\ flippedCards' = <<>>
            /\ knownPairs' = IF t.isMatch THEN knownPairs \cup {t.s1} ELSE knownPairs
            /\ memoryAccuracy' = IF t.isMatch
                                 THEN Min(990, memoryAccuracy + 10)
                                 ELSE Max(AccuracyFloor, memoryAccuracy - 5)
  /\ moves' = moves + 1 => crashed' = crashed
  /\ (boardGen' = boardGen /\ (memoryAccuracy' # memoryAccuracy \/ knownPairs' # knownPairs))
       => \E t \in Chains : CycleEnds(t)

\* C31: a human reveal is observed in the step that accepts it, once, with the
\* symbol of the card and as a human move (the recency log gains that index); the
\* opponent's two reveals are observed with the symbols of their cards and not as
\* human moves before their pair is evaluated; every evaluation of a pair begins a
\* cycle that does not fail; the step that ends a cycle applies recordOutcome once
\* (the symbol of a match joins the confirmed symbols, the accuracy moves as for one
\* match or one miss) and leaves the revealed list empty; and no other step of a
\* match applies recordOutcome.
C31_ObservedOnceThenRecorded == [][ObservedOnceThenRecorded]_vars


\* n times max(0.1, 0.5 - 0.4 x k / n) in thousandths, for k of the n symbols
RateTimes(n, k) == Max(100 * n, 500 * n - 400 * k)

\* C32: recordOutcome adds the symbol of a match, and nothing else, to the symbols
\* confirmed matched; after it the exploration rate is max(0.1, 0.5 - 0.4 x
\* (symbols confirmed matched / symbols of the alphabet)) and at least 0.1; and when
\* the rate is the one the records of this match left, the next record does not
\* raise it.
C32_ExplorationRateFromProgress ==
  [][\A wasMatch \in BOOLEAN : \A symbol1 \in SYMBOLS :
       LearnRecord(wasMatch, symbol1) =>
         /\ knownPairs' = IF wasMatch THEN knownPairs \cup {symbol1} ELSE knownPairs
         /\ Cardinality(SYMBOLS) * explorationRate'
              = RateTimes(Cardinality(SYMBOLS), Cardinality(knownPairs'))
         /\ explorationRate' >= 100
         /\ Cardinality(SYMBOLS) * explorationRate
              = RateTimes(Cardinality(SYMBOLS), Cardinality(knownPairs))
              => explorationRate' <= explorationRate]_vars

\* after a reset, records of a miss and of a match of one of the two symbols
C32_Witness ==
  /\ knownPairs = {1}
  /\ explorationRate = 300
  /\ memoryAccuracy # ConfigOf(State).aiAccuracy
  /\ memoryAccuracy % 10 = 5


(***************************************************************************)
(* A match on a board on which a symbol has more than one pair, as on the  *)
(* boards of all four levels of the source (8, 12, 18, 24 pairs of four    *)
(* symbols): the level with three pairs of two symbols, played without     *)
(* restart or difficulty change.                                          *)
(***************************************************************************)
RepeatLevel == "advanced"

\* the boards of the shuffles whose first pass draws any j and whose later passes
\* draw j = i
RepeatBoards ==
  {Swap(CardPairs(DIFFICULTIES[RepeatLevel]),
        TotalCards(DIFFICULTIES[RepeatLevel]) - 1, j) :
     j \in Indices(DIFFICULTIES[RepeatLevel])}

InitRepeat ==
  \E board \in RepeatBoards :
    /\ StateIs(FreshState(RepeatLevel, board))
    /\ tasks = <<>>

\* the resolution cycles explored on that board
MaxRepeatMoves == 2

\* a further cycle may begin
RepeatLeft == moves < MaxRepeatMoves

NextRepeat ==
  \/ RepeatLeft /\ \E i \in Indices(ConfigOf(State)) : HandleCardClick(i)
  \/ FlipDone
  \/ Matched1Done
  \/ Matched2Done
  \/ MismatchDelayDone
  \/ Back1Done
  \/ Back2Done
  \/ RepeatLeft /\ AIWaitDone
  \/ ThinkingDone
  \/ AIFlip1Done
  \/ AIPauseDone
  \/ AIFlip2Done

SpecRepeat == InitRepeat /\ [][NextRepeat]_vars

\* C33: the two cards that makeMove returns through the known-pair strategy carry
\* the same pair identifier, and the evaluation of the opponent's reveal of them
\* finds a match.
C33_KnownPairIsAMatch ==
  \A t \in Chains :
    t.strategy = "known" =>
      /\ t.c1 \in DOMAIN cards /\ t.c2 \in DOMAIN cards
      /\ cards[t.c1].pairId = cards[t.c2].pairId
      /\ t.pc \notin {"mismatchDelay", "back1", "back2"}


\* the entries of the matched list that hold card index i
PairsWith(pairs, i) == {k \in 1 .. Len(pairs) : Includes(pairs[k], i)}

\* C34: in the step in which a match finishes (endGame reports its result) every
\* card index of the board is in exactly one entry of the matched list.
C34_FinishedMeansAllMatched ==
  [][Len(gameResults') = Len(gameResults) + 1 =>
       \A i \in DOMAIN cards' : Cardinality(PairsWith(matchedPairs', i)) = 1]_vars


\* C35: whenever no handler is running, the two scores add up to the number of
\* entries of the matched list, and each score is between 0 and N/2, half the
\* number of cards of the board.
C35_ScoresCountMatchedPairs ==
  /\ playerScore + aiScore = Len(matchedPairs)
  /\ playerScore \in 0 .. (Cardinality(DOMAIN cards) \div 2)
  /\ aiScore \in 0 .. (Cardinality(DOMAIN cards) \div 2)


(***************************************************************************)
(* The controller with every opponent turn played to its end: the human    *)
(* events are bounded (clicks, and one change from the 4-card level to the *)
(* 2-card level), the opponent's moves are not.                            *)
(***************************************************************************)
\* evaluateMove: the 1000 ms pause before the opponent's move ended
OpponentBegins == \E t \in Waiting("aiWait") : Resume(t, MakeAIMove(State, t))

\* the resolution cycles of a match before which the player still clicks
MaxTurnMoves == 1

TurnLeft == moves < MaxTurnMoves

NextTurn ==
  \/ TurnLeft /\ \E i \in Indices(ConfigOf(State)) : HandleCardClick(i)
  \/ difficulty = "intermediate" /\ ChangeDifficulty("beginner")
  \/ FlipDone
  \/ Matched1Done
  \/ Matched2Done
  \/ MismatchDelayDone
  \/ Back1Done
  \/ Back2Done
  \/ OpponentBegins
  \/ ThinkingDone
  \/ AIFlip1Done
  \/ AIPauseDone
  \/ AIFlip2Done

InitTurn ==
  \E board \in GenerateCards(DIFFICULTIES["intermediate"]) :
    /\ StateIs(FreshState("intermediate", board))
    /\ tasks = <<>>

SpecTurn == InitTurn /\ [][NextTurn]_vars

\* C36: whenever it is the opponent's turn in an unfinished match, a chain waits
\* for a timer, so that the opponent's move goes on when the delay elapses; with no
\* chain waiting only a human event changes the state, clicks are rejected in the
\* opponent's turn, and the match stays in the opponent's turn.
C36_OpponentTurnEnds ==
  (currentPlayer = "ai" /\ isGameActive = TRUE) => tasks # <<>>


\* the step of chain t in which the opponent is asked for a move: makeAIMove is
\* called in an active match, in the opponent's turn, with nothing revealed
OpponentAsked(t) ==
  /\ t.pc = "aiWait" /\ Resume(t, MakeAIMove(State, t))
  /\ isGameActive = TRUE /\ currentPlayer = "ai" /\ flippedCards = <<>>

\* C37: in a match that no restart or difficulty change preceded, whenever the
\* opponent is asked for a move at least two cards are neither matched nor
\* revealed, and the move begins (the branch for fewer than two cards is not
\* taken).
C37_OpponentHasTwoCards ==
  [][\A t \in Chains :
       (boardGen = 0 /\ OpponentAsked(t)) =>
         /\ Len(Unrevealed) >= 2
         /\ \E k \in 1 .. Len(tasks') :
              tasks'[k].pc = "thinking" /\ Len(tasks'[k].avail) >= 2]_vars

\* the opponent, having matched a pair, is asked again with the last two cards
C37_Witness ==
  /\ boardGen = 0 /\ aiScore = 1 /\ isGameActive = TRUE
  /\ \E t \in Chains : t.pc = "thinking" /\ Len(t.avail) = 2


\* C38: every entry of the belief mapping is for a card of the current board and
\* holds the symbol that card carries, in the first match and after restarts and
\* difficulty changes.
C38_BeliefIsTrue ==
  \A k \in 1 .. Len(memory) :
    /\ memory[k].index \in DOMAIN cards
    /\ memory[k].symbol = cards[memory[k].index].symbol

\* after a restart or difficulty change the opponent believes two cards of the new
\* board while a chain that began on the previous board is still waiting
C38_Witness ==
  /\ boardGen = 1 /\ Len(memory) >= 2
  /\ \E t \in Chains : t.match = 0


\* a chain of evaluateMove has just begun to resolve a pair of cards of the board
CycleBegun ==
  \E k \in 1 .. Len(tasks') :
    /\ tasks'[k].pc \in {"matched1", "mismatchDelay"}
    /\ tasks'[k].due = Delay(tasks'[k].pc, State)
    /\ tasks'[k].c1 \in DOMAIN cards /\ tasks'[k].c2 \in DOMAIN cards

\* a step that leaves the move counter as C39 states
MovesCountCycles ==
  /\ \/ boardGen' # boardGen /\ moves' = 0
     \/ boardGen' = boardGen /\ moves' \in {moves, moves + 1}
  /\ moves' = moves + 1 <=> (boardGen' = boardGen /\ CycleBegun)
  /\ \A t \in Chains :
       (t.pc = "flip" /\ FlipDoneOf(t) /\ flippedCards = <<>>) => moves' = moves
  /\ \A i \in DOMAIN cards : HandleCardClick(i) => moves' = moves
  /\ Len(gameResults') = Len(gameResults) + 1 =>
       gameResults'[Len(gameResults')].totalMoves = moves'

\* C39: the move counter grows by exactly 1 in the step that begins the resolution
\* of a pair, by either player, and in no other step; a first reveal, an accepted
\* click and a rejected click leave it as it is; a new match sets it to 0; it is
\* never below the number of matched pairs; and the totalMoves of a reported
\* result is the counter at the finish.
C39_MovesCountCycles ==
  /\ [](moves >= Len(matchedPairs))
  /\ [][MovesCountCycles]_vars


(***************************************************************************)
(* explorationMove on its own, on the 4x4 grid of the beginner level: the  *)
(* recency log and the belief are built first, then the function is        *)
(* applied to a list of available cards.                                   *)
(***************************************************************************)
ExploreLevel == "beginner"

\* the cards human reveals are logged for: one in each of three 2x2 areas
ExploreLogged == {0, 2, 8}

\* the cards the belief may hold
ExploreRemembered == {1}

\* the cards the available lists are drawn from: areas 0-0, 0-1 and 1-0
ExploreCards == {0, 1, 2, 8}

MaxExploreLog == 6

InitExplore ==
  /\ StateIs(FreshState(ExploreLevel, SourceCardPairs(ExploreLevel)))
  /\ tasks = <<>>

\* trackPlayerPattern(cardIndex)
ExploreTrack ==
  \E cardIndex \in ExploreLogged :
    /\ tasks = <<>>
    /\ Len(playerPatterns) < MaxExploreLog
    /\ Commit([State EXCEPT !.playerPatterns = TrackPlayerPattern(@, cardIndex)])
    /\ UNCHANGED tasks

\* memory.set(cardIndex, symbol), in ascending order of the index
ExploreRemember ==
  \E cardIndex \in ExploreRemembered :
    /\ tasks = <<>>
    /\ \A k \in 1 .. Len(memory) : memory[k].index < cardIndex
    /\ Commit([State EXCEPT !.memory = MemSet(@, cardIndex, cards[cardIndex].symbol)])
    /\ UNCHANGED tasks

\* explorationMove(availableCards) for a non-empty ascending list; the call and
\* its result are kept as the one chain in tasks
ExploreMove ==
  /\ tasks = <<>>
  /\ \E available \in (SUBSET ExploreCards) \ {{}} :
    \E d \in ExplorationMove(SortedSeq(available), memory, playerPatterns,
                             SourceConfig(ExploreLevel)) :
      /\ tasks' = <<[NewTask EXCEPT !.pc = "decided",
                                     !.avail = SortedSeq(available),
                                     !.c1 = d.cards[1], !.c2 = d.cards[2],
                                     !.strategy = d.strategy]>>
      /\ UNCHANGED <<cards, flippedCards, matchedPairs, currentPlayer, playerScore,
                     aiScore, moves, isGameActive, difficulty, isAnimating,
                     domFlipped, boardGen, memory, probabilityMatrix,
                     playerPatterns, memoryAccuracy, explorationRate, knownPairs,
                     gameResults, crashed>>

NextExplore == ExploreTrack \/ ExploreRemember \/ ExploreMove

SpecExplore == InitExplore /\ [][NextExplore]_vars

\* the number of logged reveals in the 2x2 area a of the beginner grid
LoggedIn(a) ==
  Cardinality({k \in 1 .. Len(playerPatterns) :
                 AreaOf(playerPatterns[k], SourceConfig(ExploreLevel)) = a})

\* the 2x2 areas of the beginner grid
ExploreAreas == {AreaOf(i, SourceConfig(ExploreLevel)) : i \in Indices(SourceConfig(ExploreLevel))}

\* area a is one of the two most frequented: it is logged, and fewer than two
\* areas are logged more often
MostFrequented(a) ==
  /\ LoggedIn(a) > 0
  /\ Cardinality({b \in ExploreAreas : LoggedIn(b) > LoggedIn(a)}) < 2

\* C40: when at least two available indices are unknown, both indices
\* explorationMove returns are unknown available indices; an area-biased answer
\* is given only with at least 3 logged reveals of which the leading area holds
\* more than 0.4, and both its indices lie in areas that are among the two most
\* frequented.
C40_ExplorationWithinUnknown ==
  \A t \in Decided :
    LET unknown == {x \in Range(t.avail) : ~MemHas(memory, x)}
    IN  Cardinality(unknown) >= 2 =>
          /\ t.c1 \in unknown /\ t.c2 \in unknown
          /\ t.strategy \in {"area", "explore"}
          /\ t.strategy = "area" =>
               /\ Len(playerPatterns) >= 3
               /\ \E a \in ExploreAreas : 10 * LoggedIn(a) > 4 * Len(playerPatterns)
               /\ \A c \in {t.c1, t.c2} :
                    MostFrequented(AreaOf(c, SourceConfig(ExploreLevel)))

\* an area-biased answer while three areas are logged, a card is remembered and
\* an unknown available card lies in the least frequented of them
C40_Witness ==
  \E t \in Decided :
    /\ t.strategy = "area"
    /\ memory # <<>>
    /\ Cardinality({a \in ExploreAreas : LoggedIn(a) > 0}) = 3
    /\ \E x \in Range(t.avail) :
         /\ ~MemHas(memory, x)
         /\ LoggedIn(AreaOf(x, SourceConfig(ExploreLevel))) > 0
         /\ ~MostFrequented(AreaOf(x, SourceConfig(ExploreLevel)))

====
